---- MODULE Spec2Model ----
(***************************************************************************)
(* Model of the AOMOSO download manager (AMS_Orders/modules):              *)
(*   - App.py            MainWindow, the run buttons and the finished slot *)
(*   - App.py            WorkerThread.run, the task orchestrator           *)
(*   - web_download.py   main and its two sub-jobs                         *)
(*   - sap_download.py   main, its three sub-jobs, the Excel cleanup       *)
(*   - excel_manager.py  ExcelManager and its operation lock               *)
(*   - excel_report.py   main, the report pipeline                         *)
(*   - excel_report.py   _wait_for_calculations (specification SpecWait)   *)
(*   - helpers.py        subtract_one_business_day (specification SpecBDay)*)
(*   - excel_report.py   the pattern handlers A..F (specification SpecPat)  *)
(*   - excel_report.py   _find_engine_file (specification SpecFind)        *)
(*   - config.py         _load_config (specification SpecCfg)              *)
(*   - excel_report.py   _backup_engine_file (specification SpecBackup)    *)
(* External systems (browser, SAP GUI, Excel COM, file system) are         *)
(* nondeterministic: every call that can raise has both outcomes.          *)
(***************************************************************************)
EXTENDS Integers, Sequences, FiniteSets, TLC

VARIABLES
    script_type,   \* WorkerThread.script_type of the run, "none" before a run
    wpc,           \* position of WorkerThread.run
    finished,      \* sequence of emitted finished(bool, str) events
    results,       \* results dict of the parallel phase: None / 0 / 1
    errors,        \* errors dict of the parallel phase
    thr,           \* state of thread1 (website) and thread2 (sap)
    webpc,         \* position of web_download.main
    matpc,         \* position of thread1_wrapper (MatShortage); at the
                   \* end, whether get_MatShortage_Data returned or raised
    dailypc,       \* position of thread2_wrapper (DailyReport); at the end,
                   \* whether run_all_DailyReport_downloads returned or raised
    dailyStep,     \* which of the three daily reports is in progress
    converted,     \* daily reports whose xls was converted to xlsx
    matDownloaded, \* the file MatShortage downloaded in this run exists
    weberrors,     \* the errors list of web_download.main
    webError,      \* lines of the message of the ValueError main raised
    sappc,         \* position of sap_download.main
    sub,           \* state of the three SAP sub-job threads
    joinIdx,       \* index of the sub-job sap_download.main is joining
    timed_out_threads, \* names appended by the join loop
    sapError,      \* message of the exception that left sap_download.main
    lock,          \* ExcelManager._operation_lock: owner and count
    excelUsers,    \* the threads that are currently driving Excel
    lockTimeouts,  \* per thread: lock timeouts it has logged
    rpc,           \* position of excel_report.main
    phases,        \* phases of the pipeline entered so far, in order
    backups,       \* number of backup copies _backup_engine_file completed
    failedPhase,   \* the phase whose exception left the try block, or "none"
    excelObj,      \* excel is not None in excel_report.main
    workbookObj,   \* workbook is not None in excel_report.main
    refreshes,     \* number of workbook.RefreshAll() calls that returned
    waits,         \* number of _wait_for_calculations calls that returned
    waitTimeouts,  \* how many of them returned False (timed out)
    idx,           \* index of the next operation of the plan
    dispatched,    \* indices of the operations handed to a handler, in order
    opFailed,      \* an "Operation ... failed" record was logged
    progress,      \* percents passed to emit(), in order
    saved,         \* workbook.Save() returned
    closeCalls,    \* calls of workbook.Close(SaveChanges=False)
    quitCalls,     \* calls of excel.Quit()
    cleanupRaised, \* the calls of the finally block that raised
    partialRows,   \* an operation that raised left a row or cells behind
    reportCalls,   \* number of calls of excel_report.main by the worker
    enabled,       \* the run buttons of MainWindow that are enabled
    handled,       \* finished events of self.worker its slot has handled
    dialog,        \* title of the modal message box that is open, or "none"
    max_wait,      \* _wait_for_calculations: its parameter, in ticks
    calcDoneAt,    \* the time from which excel.CalculationState is 0
    clock,         \* time.time() - start, in ticks
    interval,      \* the local variable interval, in ticks
    waitpc,        \* position of _wait_for_calculations
    asyncCalls,    \* calls of excel.CalculateUntilAsyncQueriesDone()
    date,          \* subtract_one_business_day: its variable date, a day number
    holidays,      \* its variable holidays, a set of day numbers
    bdpc,          \* position of subtract_one_business_day
    bdInput,       \* the argument of the call in progress
    bdFirst,       \* the argument of the first call of a chain of calls
    bdCalls,       \* number of calls of the chain that have returned
    op,            \* the operation dict handed to a pattern handler
    source,        \* the cells of the source range, row by row
    header_vals,   \* the header row of the destination table
    body_vals,     \* the DataBodyRange of the destination table
    listRows,      \* dest_table.ListRows.Count
    log,           \* ListRows.Add() calls and cell writes, in order
    warnings,      \* the logger.warning records of the handler
    selected,      \* index of the source row the search selected, or 0
    patpc,         \* position of the pattern handler
    cwdFiles,      \* the files of the working directory
    engine_path,   \* the file _find_engine_file returned
    findpc,        \* position of _find_engine_file
    config,        \* config._config: 0 for None, or the number of the load
                   \* that made the mapping
    cfgFile,       \* the configuration file that exists, or "none"
    cfgpc,         \* position of each thread in _load_config
    cfgLeft,       \* requests each thread has still to make
    cfgLoads,      \* how often json.load has read the file
    cfgRet,        \* the mappings returned to each thread
    today,         \* datetime.now() of the runs of the pipeline, a day number
    engineDoc,     \* the engine workbook on disk: the number of its version
    backupDir,     \* the Backup folder: for each date stamp the version of
                   \* the workbook that the file of that name holds, or 0
    backupLog      \* the backups the runs have made: date stamp and version

orchVars   == <<script_type, wpc, finished, results, errors, thr>>
webVars    == <<webpc, matpc, dailypc, dailyStep, converted, matDownloaded,
                weberrors, webError>>
sapVars    == <<sappc, sub, joinIdx, timed_out_threads, sapError>>
excelVars  == <<lock, excelUsers, lockTimeouts>>
reportVars == <<rpc, phases, backups, failedPhase, excelObj, workbookObj,
                refreshes, waits, waitTimeouts, idx, dispatched, opFailed,
                progress, saved, closeCalls, quitCalls, cleanupRaised,
                partialRows>>
uiVars     == <<enabled, handled, dialog>>
\* The variables of the functions that are modelled on their own.
waitVars   == <<max_wait, calcDoneAt, clock, interval, waitpc, asyncCalls>>
bdayVars   == <<date, holidays, bdpc, bdInput, bdFirst, bdCalls>>
patVars    == <<op, source, header_vals, body_vals, listRows, log,
                warnings, selected, patpc>>
auxVars    == <<cwdFiles, engine_path, findpc, config, cfgFile, cfgpc,
                cfgLeft, cfgLoads, cfgRet, today, engineDoc, backupDir,
                backupLog>>
pureVars   == <<waitVars, bdayVars, patVars, auxVars>>
mainVars   == <<orchVars, webVars, sapVars, excelVars, reportVars,
                reportCalls, uiVars>>
vars == <<orchVars, webVars, sapVars, excelVars, reportVars, reportCalls,
          uiVars, pureVars>>

-----------------------------------------------------------------------------
(* Data *)

TaskTypes == {"website", "sap", "excel_report", "both", "all"}
Sides     == {"website", "sap"}
SubJobs   == <<"MO_Backorders", "MB51", "DAILY_MO_MB25">>
DailyReports == <<"Billing", "Incompletes", "Completed">>

\* Python's None in the results dict, and the objects with a returncode
\* attribute that run_website and run_sap store there.
None == [none |-> TRUE]
Obj(rc) == [returncode |-> rc]
\* Python's None in the errors dict, whose other values are strings.
NoError == "None"

Event(ok, msg) == [ok |-> ok, msg |-> msg]

\* results[side] and results[side].returncode == 0
Success(res, side) == res[side] # None /\ res[side].returncode = 0

-----------------------------------------------------------------------------
(* App.py: WorkerThread.run *)

\* BothEvent with the two partial-success messages exchanged.
BothEventSwapped(website_success, sap_success) ==
    IF website_success /\ sap_success
    THEN Event(TRUE, "Both scripts completed successfully!")
    ELSE IF website_success \/ sap_success
         THEN Event(FALSE, "Partial success: " \o
                    (IF website_success THEN "Website FAILED, SAP ok"
                                        ELSE "Website ok, SAP FAILED"))
         ELSE Event(FALSE, "Both scripts failed!")

\* App.py 221-231: the finished event of task 'both'.
\* The check marks of the source messages are written "ok" and "FAILED".
BothEvent(website_success, sap_success) ==
    IF website_success /\ sap_success
    THEN Event(TRUE, "Both scripts completed successfully!")
    ELSE IF website_success \/ sap_success
         THEN Event(FALSE, "Partial success: " \o
                    (IF website_success THEN "Website ok, SAP FAILED"
                                        ELSE "Website FAILED, SAP ok"))
         ELSE Event(FALSE, "Both scripts failed!")

\* DownloadsOk satisfied by one successful download.
DownloadsOkEither(website_ok, sap_ok) == website_ok \/ sap_ok

\* App.py 302: the guard of the report phase of task 'all'.
DownloadsOk(website_ok, sap_ok) == website_ok /\ sap_ok

\* App.py 303-310: the finished event of a failed download phase of 'all'.
AllSkippedEvent(website_ok, sap_ok) ==
    Event(FALSE, "Downloads failed - " \o
          (IF ~website_ok /\ ~sap_ok THEN "both PDBS and SAP failed."
           ELSE IF ~website_ok THEN "PDBS failed, SAP succeeded."
           ELSE "PDBS succeeded, SAP failed.") \o " Excel report skipped.")

\* AllReportEvent that ignores the exception of the pipeline.
AllReportEventAlwaysOk(returned) ==
    Event(TRUE, "All tasks completed successfully!")

\* App.py 315-322: the finished event after the report phase of 'all'.
AllReportEvent(returned) ==
    IF returned THEN Event(TRUE, "All tasks completed successfully!")
    ELSE Event(FALSE, "Downloads succeeded but Excel report failed: report")

\* A missing thread2.join().
Join2ReadyNoJoin(t) == TRUE

\* App.py 216: thread2.join() returns once thread2 has terminated.
Join2Ready(t) == t["sap"] = "dead"

\* App.py 704-709, 723-728, 742-753, 779-790: the credential checks of the
\* run_* handlers; run_excel_report (765-775) has none.
CredentialsOk(t, website_creds, sap_creds) ==
    /\ (t \in {"website", "both", "all"} => website_creds)
    /\ (t \in {"sap", "both", "all"} => sap_creds)

\* disable_all_buttons that leaves run_all_btn enabled.
disable_all_buttons_but_run_all(b) == b \cap {"all"}

\* App.py 686-692: disable_all_buttons, on the set of enabled buttons.
disable_all_buttons(b) == b \ TaskTypes

\* App.py 694-700: enable_all_buttons.
enable_all_buttons(b) == b \cup TaskTypes

\* The state of a WorkerThread that has been created and not started, of the
\* producers and of the pipeline before they are called.  The threads and the
\* counters of an earlier run are not followed into the next one.
NewWorker(t) ==
    /\ script_type' = t
    /\ finished' = <<>>
    /\ results' = [s \in Sides |-> None]
    /\ errors' = [s \in Sides |-> NoError]
    /\ thr' = [s \in Sides |-> "idle"]
    /\ webpc' = "idle"
    /\ matpc' = "idle"
    /\ dailypc' = "idle"
    /\ dailyStep' = 0
    /\ converted' = {}
    /\ matDownloaded' = FALSE
    /\ weberrors' = <<>>
    /\ webError' = <<>>
    /\ sappc' = "idle"
    /\ sub' = [j \in 1..Len(SubJobs) |-> "idle"]
    /\ joinIdx' = 0
    /\ timed_out_threads' = <<>>
    /\ sapError' = "none"
    /\ lockTimeouts' = [th \in DOMAIN lockTimeouts |-> 0]
    /\ rpc' = "idle"
    /\ phases' = <<>>
    /\ backups' = 0
    /\ failedPhase' = "none"
    /\ excelObj' = FALSE
    /\ workbookObj' = FALSE
    /\ refreshes' = 0
    /\ waits' = 0
    /\ waitTimeouts' = 0
    /\ idx' = 0
    /\ dispatched' = <<>>
    /\ opFailed' = FALSE
    /\ progress' = <<>>
    /\ saved' = FALSE
    /\ closeCalls' = 0
    /\ quitCalls' = 0
    /\ cleanupRaised' = {}
    /\ partialRows' = FALSE
    /\ reportCalls' = 0
    /\ handled' = 0

\* App.py 702-800: the clicked handler of one of the five run buttons.  A
\* button is clicked only while it is enabled and no modal message box is
\* open.  Missing credentials: show_error and return.  Otherwise
\* disable_all_buttons, a new WorkerThread is stored in self.worker, its
\* finished signal is connected, and it is started.
Start(t) ==
    /\ t \in enabled
    /\ dialog = "none"
    /\ \E website_creds, sap_creds \in BOOLEAN :
          IF CredentialsOk(t, website_creds, sap_creds)
          THEN /\ enabled' = disable_all_buttons(enabled)
               /\ NewWorker(t)
               /\ wpc' = "imports"
               /\ UNCHANGED <<lock, excelUsers, dialog>>
          ELSE /\ dialog' = "Missing Information"
               /\ UNCHANGED <<orchVars, webVars, sapVars, excelVars,
                              reportVars, reportCalls, enabled, handled>>
    /\ UNCHANGED pureVars

\* App.py 802-844: the slot connected to finished (on_generic_finished,
\* on_website_finished, on_sap_finished, on_both_finished): the signal is
\* queued to the GUI thread; enable_all_buttons, then a message box.
OnFinished ==
    /\ handled < Len(finished)
    /\ enabled' = enable_all_buttons(enabled)
    /\ handled' = handled + 1
    /\ dialog' = IF finished[handled + 1].ok THEN "Success" ELSE "Error"
    /\ UNCHANGED <<orchVars, webVars, sapVars, excelVars, reportVars,
                   reportCalls, pureVars>>

\* App.py 846-895: show_success and show_error run the message box with
\* exec(); the user closes it.
CloseDialog ==
    /\ dialog # "none"
    /\ dialog' = "none"
    /\ UNCHANGED <<orchVars, webVars, sapVars, excelVars, reportVars,
                   reportCalls, enabled, handled, pureVars>>

\* App.py 160 and 31-42: _ensure_imports() is the first statement of run,
\* before the try block of line 178; a failing import leaves run.
EnsureImports ==
    /\ wpc = "imports"
    /\ \E ok \in BOOLEAN : wpc' = IF ok THEN "dispatch" ELSE "raised"
    /\ UNCHANGED <<script_type, finished, results, errors, thr, webVars,
                   sapVars, excelVars, reportVars, reportCalls>>
    /\ UNCHANGED <<uiVars, pureVars>>

\* App.py 183-213 / 266-295: results and errors are created, both threads
\* are started.
StartParallel ==
    /\ wpc = "dispatch"
    /\ script_type \in {"both", "all"}
    /\ results' = [s \in Sides |-> None]
    /\ errors' = [s \in Sides |-> NoError]
    /\ thr' = [s \in Sides |-> "running"]
    /\ webpc' = "start"
    /\ sappc' = "start"
    /\ wpc' = "join1"
    /\ UNCHANGED <<script_type, finished, matpc, dailypc, dailyStep, converted,
                   matDownloaded, weberrors, sub, joinIdx, timed_out_threads,
                   excelVars, reportVars, reportCalls>>
    /\ UNCHANGED <<uiVars, pureVars, webError, sapError>>

\* App.py 233-236: task 'website' calls web_download.main in the worker.
CallWebsite ==
    /\ wpc = "dispatch"
    /\ script_type = "website"
    /\ webpc' = "start"
    /\ wpc' = "call_web"
    /\ UNCHANGED <<script_type, finished, results, errors, thr, matpc, dailypc,
                   dailyStep, converted, matDownloaded, weberrors, sapVars,
                   excelVars, reportVars, reportCalls>>
    /\ UNCHANGED <<uiVars, pureVars, webError>>

\* App.py 242-245: task 'sap' calls sap_download.main in the worker.
CallSap ==
    /\ wpc = "dispatch"
    /\ script_type = "sap"
    /\ sappc' = "start"
    /\ wpc' = "call_sap"
    /\ UNCHANGED <<script_type, finished, results, errors, thr, webVars, sub,
                   joinIdx, timed_out_threads, excelVars, reportVars,
                   reportCalls>>
    /\ UNCHANGED <<uiVars, pureVars, sapError>>

\* App.py 251-256: task 'excel_report' calls excel_report.main.
CallReport ==
    /\ wpc = "dispatch"
    /\ script_type = "excel_report"
    /\ rpc' = "discover"
    /\ reportCalls' = reportCalls + 1
    /\ wpc' = "call_report"
    /\ UNCHANGED <<script_type, finished, results, errors, thr, webVars,
                   sapVars, excelVars, phases, backups, failedPhase, excelObj,
                   workbookObj, refreshes, waits, waitTimeouts, idx,
                   dispatched, opFailed, progress, saved, closeCalls,
                   quitCalls, cleanupRaised, partialRows>>
    /\ UNCHANGED <<uiVars, pureVars>>

\* App.py 186-195 / 269-278: run_website records the outcome of
\* web_download.main in its own entries of results and errors and returns,
\* which ends thread1.
RunWebsiteRecord ==
    /\ thr["website"] = "running"
    /\ webpc \in {"ret", "raised"}
    /\ results' = [results EXCEPT !["website"] =
                       IF webpc = "ret" THEN Obj(0) ELSE Obj(1)]
    /\ errors' = [errors EXCEPT !["website"] =
                      IF webpc = "ret" THEN NoError ELSE "web_download"]
    /\ thr' = [thr EXCEPT !["website"] = "dead"]
    /\ UNCHANGED <<script_type, wpc, finished, webVars, sapVars, excelVars,
                   reportVars, reportCalls>>
    /\ UNCHANGED <<uiVars, pureVars>>

\* run_sap that stores its result under the key of the other thread.
RunSapRecordOtherKey ==
    /\ thr["sap"] = "running"
    /\ sappc \in {"ret", "raised"}
    /\ results' = [results EXCEPT !["website"] =
                       IF sappc = "ret" THEN Obj(0) ELSE Obj(1)]
    /\ errors' = [errors EXCEPT !["website"] =
                      IF sappc = "ret" THEN NoError ELSE "sap_download"]
    /\ thr' = [thr EXCEPT !["sap"] = "dead"]
    /\ UNCHANGED <<script_type, wpc, finished, webVars, sapVars, excelVars,
                   reportVars, reportCalls>>
    /\ UNCHANGED <<uiVars, pureVars>>

\* App.py 197-207 / 280-290: run_sap does the same for sap_download.main.
RunSapRecord ==
    /\ thr["sap"] = "running"
    /\ sappc \in {"ret", "raised"}
    /\ results' = [results EXCEPT !["sap"] =
                       IF sappc = "ret" THEN Obj(0) ELSE Obj(1)]
    /\ errors' = [errors EXCEPT !["sap"] =
                      IF sappc = "ret" THEN NoError ELSE "sap_download"]
    /\ thr' = [thr EXCEPT !["sap"] = "dead"]
    /\ UNCHANGED <<script_type, wpc, finished, webVars, sapVars, excelVars,
                   reportVars, reportCalls>>
    /\ UNCHANGED <<uiVars, pureVars>>

\* App.py 215 / 296: thread1.join().
Join1 ==
    /\ wpc = "join1"
    /\ thr["website"] = "dead"
    /\ wpc' = "join2"
    /\ UNCHANGED <<script_type, finished, results, errors, thr, webVars,
                   sapVars, excelVars, reportVars, reportCalls>>
    /\ UNCHANGED <<uiVars, pureVars>>

\* App.py 216 / 297: thread2.join().
Join2 ==
    /\ wpc = "join2"
    /\ Join2Ready(thr)
    /\ wpc' = "aggregate"
    /\ UNCHANGED <<script_type, finished, results, errors, thr, webVars,
                   sapVars, excelVars, reportVars, reportCalls>>
    /\ UNCHANGED <<uiVars, pureVars>>

\* App.py 218-231: the outcome of task 'both'.
AggregateBoth ==
    /\ wpc = "aggregate"
    /\ script_type = "both"
    /\ finished' = Append(finished, BothEvent(Success(results, "website"),
                                              Success(results, "sap")))
    /\ wpc' = "done"
    /\ UNCHANGED <<script_type, results, errors, thr, webVars, sapVars,
                   excelVars, reportVars, reportCalls>>
    /\ UNCHANGED <<uiVars, pureVars>>

\* App.py 299-311: a failed download phase of 'all' reports and returns.
AggregateAllFailed ==
    /\ wpc = "aggregate"
    /\ script_type = "all"
    /\ ~DownloadsOk(Success(results, "website"), Success(results, "sap"))
    /\ finished' = Append(finished, AllSkippedEvent(Success(results, "website"),
                                                    Success(results, "sap")))
    /\ wpc' = "done"
    /\ UNCHANGED <<script_type, results, errors, thr, webVars, sapVars,
                   excelVars, reportVars, reportCalls>>
    /\ UNCHANGED <<uiVars, pureVars>>

\* App.py 313-318: after two successful downloads 'all' calls
\* excel_report.main.
AggregateAllReport ==
    /\ wpc = "aggregate"
    /\ script_type = "all"
    /\ DownloadsOk(Success(results, "website"), Success(results, "sap"))
    /\ rpc' = "discover"
    /\ reportCalls' = reportCalls + 1
    /\ wpc' = "call_report"
    /\ UNCHANGED <<script_type, finished, results, errors, thr, webVars,
                   sapVars, excelVars, phases, backups, failedPhase, excelObj,
                   workbookObj, refreshes, waits, waitTimeouts, idx,
                   dispatched, opFailed, progress, saved, closeCalls,
                   quitCalls, cleanupRaised, partialRows>>
    /\ UNCHANGED <<uiVars, pureVars>>

\* App.py 235-240: the outcome of task 'website'.
WebsiteReturn ==
    /\ wpc = "call_web"
    /\ webpc \in {"ret", "raised"}
    /\ finished' = Append(finished,
           IF webpc = "ret"
           THEN Event(TRUE, "PDBS Files Downloaded Successfully!")
           ELSE Event(FALSE, "Error: web_download"))
    /\ wpc' = "done"
    /\ UNCHANGED <<script_type, results, errors, thr, webVars, sapVars,
                   excelVars, reportVars, reportCalls>>
    /\ UNCHANGED <<uiVars, pureVars>>

\* App.py 244-249: the outcome of task 'sap'.
SapReturn ==
    /\ wpc = "call_sap"
    /\ sappc \in {"ret", "raised"}
    /\ finished' = Append(finished,
           IF sappc = "ret"
           THEN Event(TRUE, "SAP Files Downloaded Successfully!")
           ELSE Event(FALSE, "Error: sap_download"))
    /\ wpc' = "done"
    /\ UNCHANGED <<script_type, results, errors, thr, webVars, sapVars,
                   excelVars, reportVars, reportCalls>>
    /\ UNCHANGED <<uiVars, pureVars>>

\* App.py 253-260 and 315-322: the outcome of excel_report.main.
ReportReturn ==
    /\ wpc = "call_report"
    /\ rpc \in {"ret", "raised"}
    /\ finished' = Append(finished,
           IF script_type = "all" THEN AllReportEvent(rpc = "ret")
           ELSE IF rpc = "ret"
                THEN Event(TRUE, "Excel Report completed successfully!")
                ELSE Event(FALSE, "Error: report"))
    /\ wpc' = "done"
    /\ UNCHANGED <<script_type, results, errors, thr, webVars, sapVars,
                   excelVars, reportVars, reportCalls>>
    /\ UNCHANGED <<uiVars, pureVars>>

-----------------------------------------------------------------------------
(* excel_manager.py: ExcelManager._operation_lock, a threading.RLock *)

FreeLock == [owner |-> "nobody", count |-> 0]

\* RLock.acquire succeeds at once when the lock is free or owned by the caller.
CanAcquire(l, t) == l.owner = "nobody" \/ l.owner = t

Acquire(l, t) == [owner |-> t, count |-> l.count + 1]

\* RLock.release by the owner.
Release(l) ==
    IF l.count > 1 THEN [l EXCEPT !.count = l.count - 1] ELSE FreeLock

\* A release placed at the end of the try block instead of in finally.
LockAfterConvertNoFinally(l, outcome) ==
    IF outcome = "ok" THEN Release(l) ELSE l

\* excel_manager.py 84-105: the finally block of convert_xls_to_xlsx
\* releases the lock whatever the outcome of the conversion was.
LockAfterConvert(l, outcome) == Release(l)

\* excel_manager.py 134-139: the finally block of release_excel.
LockAfterReleaseExcel(l, outcome) == Release(l)

Bump(stats, t) == [stats EXCEPT ![t] = @ + 1]

-----------------------------------------------------------------------------
(* web_download.py: main, thread1_wrapper, thread2_wrapper *)

\* The final positions of the two wrappers of web_download.main.
Terminated == {"returned", "raised"}

\* web_download.py 391-410: main starts MatShortage and DailyReport.
WebMainStart ==
    /\ webpc = "start"
    /\ webpc' = "join1"
    /\ matpc' = "run"
    /\ dailypc' = "remove"
    /\ dailyStep' = 0
    /\ converted' = {}
    /\ matDownloaded' = FALSE
    /\ weberrors' = <<>>
    /\ UNCHANGED <<orchVars, sapVars, excelVars, reportVars, reportCalls>>
    /\ UNCHANGED <<uiVars, pureVars, webError>>

\* web_download.py 393-397 and 184-203: get_MatShortage_Data downloads
\* MatShortageRpt_*.xlsx into the working directory and returns, or it
\* raises; the wrapper appends the exception to errors.
MatShortage ==
    /\ matpc = "run"
    /\ \E ok \in BOOLEAN :
          /\ weberrors' = IF ok THEN weberrors
                          ELSE Append(weberrors, "MatShortage")
          /\ matpc' = IF ok THEN "returned" ELSE "raised"
          /\ matDownloaded' = ok
    /\ UNCHANGED <<orchVars, webpc, dailypc, dailyStep, converted, sapVars,
                   excelVars, reportVars, reportCalls>>
    /\ UNCHANGED <<uiVars, pureVars, webError>>

\* web_download.py 399-403 and 373-383: an exception of
\* run_all_DailyReport_downloads is re-raised and recorded by the wrapper.
DailyRaise ==
    /\ weberrors' = Append(weberrors, "DailyReport")
    /\ dailypc' = "raised"

\* web_download.py 361 and file_utils.py 60-95: remove_old_files sends
\* every file of the working directory whose name starts with one of its
\* prefixes, "MatShortageRpt" among them, to the trash; it catches its
\* own errors.
DailyRemoveOld ==
    /\ dailypc = "remove"
    /\ dailypc' = "nav"
    /\ matDownloaded' = FALSE
    /\ UNCHANGED <<orchVars, webpc, matpc, dailyStep, converted, weberrors,
                   sapVars, excelVars, reportVars, reportCalls>>
    /\ UNCHANGED <<uiVars, pureVars, webError>>

\* web_download.py 362 and 222-233: navigate_DailyReport (driver, login).
DailyNavigate ==
    /\ dailypc = "nav"
    /\ \/ /\ dailypc' = "download"
          /\ dailyStep' = 1
          /\ UNCHANGED weberrors
       \/ /\ DailyRaise
          /\ UNCHANGED dailyStep
    /\ UNCHANGED <<orchVars, webpc, matpc, converted, matDownloaded, sapVars,
                   excelVars, reportVars, reportCalls>>
    /\ UNCHANGED <<uiVars, pureVars, webError>>

\* web_download.py 369-371: after the third report the sub-job returns.
DailyNext ==
    IF dailyStep = Len(DailyReports)
    THEN dailypc' = "returned" /\ UNCHANGED dailyStep
    ELSE dailypc' = "download" /\ dailyStep' = dailyStep + 1

\* web_download.py 236-256 (and 277-297, 318-338): the date field, the
\* download and the test for DailyReport.xls.  wait_for_element and
\* wait_for_download raise on timeout; a missing file skips the conversion.
DailyDownload ==
    /\ dailypc = "download"
    /\ \/ /\ dailypc' = "acquire"
          /\ UNCHANGED <<dailyStep, weberrors>>
       \/ /\ DailyNext
          /\ UNCHANGED weberrors
       \/ /\ DailyRaise
          /\ UNCHANGED dailyStep
    /\ UNCHANGED <<orchVars, webpc, matpc, converted, matDownloaded, sapVars,
                   excelVars, reportVars, reportCalls>>
    /\ UNCHANGED <<uiVars, pureVars, webError>>

\* excel_manager.py 49-72: the acquisition of convert_xls_to_xlsx succeeds
\* and the try block starts to drive Excel (Dispatch, Open, SaveAs, Close).
ConvertAcquire ==
    /\ dailypc = "acquire"
    /\ CanAcquire(lock, "daily")
    /\ lock' = Acquire(lock, "daily")
    /\ excelUsers' = excelUsers \cup {"daily"}
    /\ dailypc' = "converting"
    /\ UNCHANGED <<orchVars, webpc, matpc, dailyStep, converted, matDownloaded,
                   weberrors, sapVars, lockTimeouts, reportVars, reportCalls>>
    /\ UNCHANGED <<uiVars, pureVars, webError>>

\* excel_manager.py 49-53 and web_download.py 269-270: the acquisition times
\* out after 60 s while another thread holds the lock; convert_xls_to_xlsx
\* logs and returns False, the caller logs and goes on.
ConvertAcquireTimeout ==
    /\ dailypc = "acquire"
    /\ ~CanAcquire(lock, "daily")
    /\ lockTimeouts' = Bump(lockTimeouts, "daily")
    /\ DailyNext
    /\ UNCHANGED <<orchVars, webpc, matpc, converted, matDownloaded, weberrors,
                   sapVars, lock, excelUsers, reportVars, reportCalls>>
    /\ UNCHANGED <<uiVars, pureVars, webError>>

\* excel_manager.py 73-105 and web_download.py 261-272: the conversion
\* returns True, or an exception is caught and it returns False; the finally
\* block quits Excel and releases the lock.
ConvertEnd ==
    /\ dailypc = "converting"
    /\ \E outcome \in {"ok", "error"} :
          /\ lock' = LockAfterConvert(lock, outcome)
          /\ converted' = IF outcome = "ok"
                          THEN converted \cup {DailyReports[dailyStep]}
                          ELSE converted
    /\ excelUsers' = excelUsers \ {"daily"}
    /\ DailyNext
    /\ UNCHANGED <<orchVars, webpc, matpc, matDownloaded, weberrors, sapVars,
                   lockTimeouts, reportVars, reportCalls>>
    /\ UNCHANGED <<uiVars, pureVars, webError>>

\* web_download.py 413: thread1.join().
WebJoin1 ==
    /\ webpc = "join1"
    /\ matpc \in Terminated
    /\ webpc' = "join2"
    /\ UNCHANGED <<orchVars, matpc, dailypc, dailyStep, converted,
                   matDownloaded, weberrors, sapVars, excelVars, reportVars,
                   reportCalls>>
    /\ UNCHANGED <<uiVars, pureVars, webError>>

\* web_download.main that raises only when both sub-jobs failed.
WebRaisesOnlyIfBoth(errs) == Len(errs) > 1

\* web_download.py 417: if errors.
WebRaises(errs) == errs # <<>>

\* web_download.py 418-419: one line "name: str(err)" per entry of errors;
\* the text of every exception is written "error".
WebMessage(errs) == [i \in 1..Len(errs) |-> errs[i] \o ": error"]

\* web_download.py 414-423: thread2.join(), then main raises ValueError if
\* errors is not empty.
WebJoin2 ==
    /\ webpc = "join2"
    /\ dailypc \in Terminated
    /\ IF WebRaises(weberrors)
       THEN webpc' = "raised" /\ webError' = WebMessage(weberrors)
       ELSE webpc' = "ret" /\ UNCHANGED webError
    /\ UNCHANGED <<orchVars, matpc, dailypc, dailyStep, converted,
                   matDownloaded, weberrors, sapVars, excelVars, reportVars,
                   reportCalls>>
    /\ UNCHANGED <<uiVars, pureVars>>

-----------------------------------------------------------------------------
(* sap_download.py: main and its three sub-job threads *)

\* sap_download.py 226-252: SAP is started, the login and the session check
\* pass and the three threads are started; or one of these steps raises.
SapMainStart ==
    /\ sappc = "start"
    /\ timed_out_threads' = <<>>
    /\ \/ /\ sappc' = "join"
          /\ joinIdx' = 1
          /\ sub' = [j \in 1..Len(SubJobs) |-> "run"]
          /\ UNCHANGED sapError
       \/ /\ sappc' = "raised"
          /\ sapError' = "startup"
          /\ UNCHANGED <<joinIdx, sub>>
    /\ UNCHANGED <<orchVars, webVars, excelVars, reportVars, reportCalls>>
    /\ UNCHANGED <<uiVars, pureVars>>

\* sap_download.py 95-209: a sub-job runs to its end, or an exception ends
\* its thread (nothing in the thread target catches it).
SubJob(j) ==
    /\ sub[j] = "run"
    /\ \E outcome \in {"ok", "exc"} : sub' = [sub EXCEPT ![j] = outcome]
    /\ UNCHANGED <<orchVars, webVars, sappc, joinIdx, timed_out_threads,
                   excelVars, reportVars, reportCalls>>
    /\ UNCHANGED <<uiVars, pureVars, sapError>>

\* The join loop left at the first thread that timed out.
JoinLoopDoneAtFirstTimeout(i) == i > Len(SubJobs) \/ timed_out_threads # <<>>

\* sap_download.py 255-260: the for loop over [thread1, thread2, thread3] has
\* joined every thread.
JoinLoopDone(i) == i > Len(SubJobs)

\* ', '.join(names)
RECURSIVE JoinNames(_)
JoinNames(names) ==
    IF names = <<>> THEN ""
    ELSE IF Len(names) = 1 THEN names[1]
    ELSE names[1] \o ", " \o JoinNames(Tail(names))

\* sap_download.py 263: the message of the TimeoutError.
TimeoutMessage(names) == "Threads did not complete: " \o JoinNames(names)

\* sap_download.py 256-258: t.join(timeout) returns because the thread has
\* terminated; t.is_alive() is False.
SapJoin ==
    /\ sappc = "join"
    /\ ~JoinLoopDone(joinIdx)
    /\ sub[joinIdx] # "run"
    /\ joinIdx' = joinIdx + 1
    /\ UNCHANGED <<orchVars, webVars, sappc, sub, timed_out_threads,
                   excelVars, reportVars, reportCalls>>
    /\ UNCHANGED <<uiVars, pureVars, sapError>>

\* sap_download.py 257-260: the join times out after THREAD_TIMEOUT; the
\* thread is alive and its name is appended.
SapJoinTimeout ==
    /\ sappc = "join"
    /\ ~JoinLoopDone(joinIdx)
    /\ sub[joinIdx] = "run"
    /\ timed_out_threads' = Append(timed_out_threads, SubJobs[joinIdx])
    /\ joinIdx' = joinIdx + 1
    /\ UNCHANGED <<orchVars, webVars, sappc, sub, excelVars, reportVars,
                   reportCalls>>
    /\ UNCHANGED <<uiVars, pureVars, sapError>>

\* sap_download.py 262-273: TimeoutError if a thread timed out, else on to
\* the Excel cleanup.
SapAfterJoin ==
    /\ sappc = "join"
    /\ JoinLoopDone(joinIdx)
    /\ IF timed_out_threads # <<>>
       THEN /\ sappc' = "raised"
            /\ sapError' = TimeoutMessage(timed_out_threads)
       ELSE /\ sappc' = "close_excel"
            /\ UNCHANGED sapError
    /\ UNCHANGED <<orchVars, webVars, sub, joinIdx, timed_out_threads,
                   excelVars, reportVars, reportCalls>>
    /\ UNCHANGED <<uiVars, pureVars>>

\* sap_download.py 85-90: close_excel dispatches Excel.Application and
\* closes its workbooks; it takes no lock.
CloseExcelBegin ==
    /\ sappc = "close_excel"
    /\ excelUsers' = excelUsers \cup {"sap"}
    /\ sappc' = "closing_excel"
    /\ UNCHANGED <<orchVars, webVars, sub, joinIdx, timed_out_threads, lock,
                   lockTimeouts, reportVars, reportCalls>>
    /\ UNCHANGED <<uiVars, pureVars, sapError>>

\* sap_download.py 90-93: the workbooks are closed, or the error is logged.
CloseExcelEnd ==
    /\ sappc = "closing_excel"
    /\ excelUsers' = excelUsers \ {"sap"}
    /\ sappc' = "release_excel"
    /\ UNCHANGED <<orchVars, webVars, sub, joinIdx, timed_out_threads, lock,
                   lockTimeouts, reportVars, reportCalls>>
    /\ UNCHANGED <<uiVars, pureVars, sapError>>

\* excel_manager.py 114-126: release_excel(force_quit=True) acquires the
\* lock and drives Excel (GetActiveObject, Quit).
ReleaseExcelAcquire ==
    /\ sappc = "release_excel"
    /\ CanAcquire(lock, "sap")
    /\ lock' = Acquire(lock, "sap")
    /\ excelUsers' = excelUsers \cup {"sap"}
    /\ sappc' = "releasing_excel"
    /\ UNCHANGED <<orchVars, webVars, sub, joinIdx, timed_out_threads,
                   lockTimeouts, reportVars, reportCalls>>
    /\ UNCHANGED <<uiVars, pureVars, sapError>>

\* excel_manager.py 117-120: the acquisition times out after 10 s; a warning
\* is logged and release_excel returns.
ReleaseExcelTimeout ==
    /\ sappc = "release_excel"
    /\ ~CanAcquire(lock, "sap")
    /\ lockTimeouts' = Bump(lockTimeouts, "sap")
    /\ sappc' = "close_sap"
    /\ UNCHANGED <<orchVars, webVars, sub, joinIdx, timed_out_threads, lock,
                   excelUsers, reportVars, reportCalls>>
    /\ UNCHANGED <<uiVars, pureVars, sapError>>

\* excel_manager.py 127-139: Excel was quit or none was found; the finally
\* block releases the lock.
ReleaseExcelEnd ==
    /\ sappc = "releasing_excel"
    /\ \E outcome \in {"ok", "error"} :
          lock' = LockAfterReleaseExcel(lock, outcome)
    /\ excelUsers' = excelUsers \ {"sap"}
    /\ sappc' = "close_sap"
    /\ UNCHANGED <<orchVars, webVars, sub, joinIdx, timed_out_threads,
                   lockTimeouts, reportVars, reportCalls>>
    /\ UNCHANGED <<uiVars, pureVars, sapError>>

\* sap_download.py 14-83 and 281-283: close_sap catches its errors; main
\* returns.
CloseSap ==
    /\ sappc = "close_sap"
    /\ sappc' = "ret"
    /\ UNCHANGED <<orchVars, webVars, sub, joinIdx, timed_out_threads,
                   excelVars, reportVars, reportCalls>>
    /\ UNCHANGED <<uiVars, pureVars, sapError>>

-----------------------------------------------------------------------------
(* excel_report.py: main, the report pipeline *)

\* excel_report.py 381-569: the patterns of the operations of
\* _build_operations, in list order.
Plan == <<"A", "A", "A", "B", "C", "B", "B", "B", "B", "C",
          "B", "D", "B", "B", "E", "D", "E", "E", "F">>

\* excel_report.py 621: for _ in range(3)
RefreshCycles == 3

\* excel_report.py 631: total = len(operations) or 1
total == IF Len(Plan) = 0 THEN 1 ELSE Len(Plan)

\* Pct of a loop that counts the operations from 0.
PctFromZero(i) == 20 + (((i - 1) * 70) \div total)

\* excel_report.py 647: pct = 20 + int((idx / total) * 70).  For the 19
\* operations of the plan the float product and the integer quotient have
\* the same integer part.
Pct(i) == 20 + ((i * 70) \div total)

\* NextPc with the backup taken after the workbook was opened.
NextPcBackupLate(p) ==
    CASE p = "discover"  -> "open"
      [] p = "open"      -> "backup"
      [] p = "backup"    -> "refresh"
      [] p = "refresh"   -> "wait"
      [] p = "wait"      -> "refresh"
      [] p = "hide"      -> "ops"
      [] p = "ops"       -> "final"
      [] p = "final"     -> "finalwait"
      [] p = "finalwait" -> "save"
      [] p = "save"      -> "cleanup"

\* NextPc of a main that saves right after the operations loop.
NextPcSaveAfterOps(p) ==
    CASE p = "discover"  -> "backup"
      [] p = "backup"    -> "open"
      [] p = "open"      -> "refresh"
      [] p = "refresh"   -> "wait"
      [] p = "wait"      -> "refresh"
      [] p = "hide"      -> "ops"
      [] p = "ops"       -> "save"
      [] p = "final"     -> "finalwait"
      [] p = "finalwait" -> "save"
      [] p = "save"      -> "cleanup"

\* excel_report.py 590-657: the statement that follows each step of main
\* when the step does not raise.
NextPc(p) ==
    CASE p = "discover"  -> "backup"
      [] p = "backup"    -> "open"
      [] p = "open"      -> "refresh"
      [] p = "refresh"   -> "wait"
      [] p = "wait"      -> "refresh"
      [] p = "hide"      -> "ops"
      [] p = "ops"       -> "final"
      [] p = "final"     -> "finalwait"
      [] p = "finalwait" -> "save"
      [] p = "save"      -> "cleanup"

\* FailPc with the exceptions of the refresh cycles swallowed.
FailPcRefreshSwallowed(p) ==
    IF p \in {"discover", "backup"} THEN "raised"
    ELSE IF p = "refresh" THEN "wait"
    ELSE "cleanup"

\* excel_report.py 590-595 and 601-674: an exception of discovery or backup
\* leaves main at once; one raised inside the try block is logged, the
\* finally block runs and the exception is re-raised.
FailPc(p) == IF p \in {"discover", "backup"} THEN "raised" ELSE "cleanup"

\* NextOpIndex of a loop whose try block encloses the whole loop: the first
\* exception ends it.
NextOpIndexAbort(i, outcome) ==
    IF outcome = "raise" THEN Len(Plan) + 1 ELSE i + 1

\* excel_report.py 633-648: the loop goes on to the next operation whether
\* the handler returned or raised.
NextOpIndex(i, outcome) == i + 1

\* The log of phases: a phase is recorded when its first step starts.
Enter(phase) == IF phases # <<>> /\ phases[Len(phases)] = phase
                THEN phases ELSE Append(phases, phase)

\* excel_report.py 591-592: _find_engine_file, emit(0).
ReportDiscover ==
    /\ rpc = "discover"
    /\ phases' = Enter("Discover")
    /\ \/ /\ rpc' = NextPc("discover")
          /\ progress' = Append(progress, 0)
          /\ UNCHANGED failedPhase
       \/ /\ rpc' = FailPc("discover")
          /\ failedPhase' = "Discover"
          /\ UNCHANGED progress
    /\ UNCHANGED <<orchVars, webVars, sapVars, excelVars, backups, excelObj,
                   workbookObj, refreshes, waits, waitTimeouts, idx,
                   dispatched, opFailed, saved, closeCalls, quitCalls,
                   cleanupRaised, partialRows, reportCalls>>
    /\ UNCHANGED <<uiVars, pureVars>>

\* excel_report.py 594-595 and 44-61: emit(2), _backup_engine_file.
ReportBackup ==
    /\ rpc = "backup"
    /\ phases' = Enter("Backup")
    /\ progress' = Append(progress, 2)
    /\ \/ /\ rpc' = NextPc("backup")
          /\ backups' = backups + 1
          /\ UNCHANGED failedPhase
       \/ /\ rpc' = FailPc("backup")
          /\ failedPhase' = "Backup"
          /\ UNCHANGED backups
    /\ UNCHANGED <<orchVars, webVars, sapVars, excelVars, excelObj,
                   workbookObj, refreshes, waits, waitTimeouts, idx,
                   dispatched, opFailed, saved, closeCalls, quitCalls,
                   cleanupRaised, partialRows, reportCalls>>
    /\ UNCHANGED <<uiVars, pureVars>>

\* excel_report.py 598-620: emit(5), Dispatch, Workbooks.Open, the two date
\* cells of UTILITY, emit(10).  Each of the three COM steps can raise.
ReportOpen ==
    /\ rpc = "open"
    /\ phases' = Enter("Open")
    /\ \E outcome \in {"ok", "dispatch_raises", "open_raises", "dates_raise"} :
          /\ excelObj' = (outcome # "dispatch_raises")
          /\ workbookObj' = (outcome \in {"ok", "dates_raise"})
          /\ excelUsers' = IF outcome # "dispatch_raises"
                           THEN excelUsers \cup {"report"} ELSE excelUsers
          /\ IF outcome = "ok"
             THEN /\ rpc' = NextPc("open")
                  /\ progress' = progress \o <<5, 10>>
                  /\ UNCHANGED failedPhase
             ELSE /\ rpc' = FailPc("open")
                  /\ progress' = Append(progress, 5)
                  /\ failedPhase' = "Open"
    /\ UNCHANGED <<orchVars, webVars, sapVars, lock, lockTimeouts, backups,
                   refreshes, waits, waitTimeouts, idx, dispatched, opFailed,
                   saved, closeCalls, quitCalls, cleanupRaised, partialRows,
                   reportCalls>>
    /\ UNCHANGED <<uiVars, pureVars>>

\* excel_report.py 621-622: workbook.RefreshAll() of one refresh cycle.
ReportRefresh ==
    /\ rpc = "refresh"
    /\ phases' = Enter("Refresh")
    /\ \/ /\ rpc' = NextPc("refresh")
          /\ refreshes' = refreshes + 1
          /\ UNCHANGED failedPhase
       \/ /\ rpc' = FailPc("refresh")
          /\ failedPhase' = "Refresh"
          /\ UNCHANGED refreshes
    /\ UNCHANGED <<orchVars, webVars, sapVars, excelVars, backups, excelObj,
                   workbookObj, waits, waitTimeouts, idx, dispatched, opFailed,
                   progress, saved, closeCalls, quitCalls, cleanupRaised,
                   partialRows, reportCalls>>
    /\ UNCHANGED <<uiVars, pureVars>>

\* A pipeline that gives up when the waiter reports a timeout.
WaitAbortsOnTimeout(r) == r = "TimedOut"

\* excel_report.py 623 and 653: the value _wait_for_calculations returns is
\* not used.
WaitAborts(r) == FALSE

\* excel_report.py 623-624 and 79-95: _wait_for_calculations returns True or
\* False, or reading CalculationState raises; after the third cycle
\* emit(20).
ReportWait ==
    /\ rpc = "wait"
    /\ \/ \E r \in {"Completed", "TimedOut"} :
            /\ waits' = waits + 1
            /\ waitTimeouts' = IF r = "TimedOut" THEN waitTimeouts + 1
                                                ELSE waitTimeouts
            /\ IF WaitAborts(r)
               THEN /\ rpc' = FailPc("wait")
                    /\ failedPhase' = "Refresh"
                    /\ UNCHANGED progress
               ELSE /\ UNCHANGED failedPhase
                    /\ IF waits + 1 = RefreshCycles
                       THEN /\ rpc' = "hide"
                            /\ progress' = Append(progress, 20)
                       ELSE /\ rpc' = NextPc("wait")
                            /\ UNCHANGED progress
       \/ /\ rpc' = FailPc("wait")
          /\ failedPhase' = "Refresh"
          /\ UNCHANGED <<waits, waitTimeouts, progress>>
    /\ UNCHANGED idx
    /\ UNCHANGED <<orchVars, webVars, sapVars, excelVars, phases, backups,
                   excelObj, workbookObj, refreshes, dispatched, opFailed,
                   saved, closeCalls, quitCalls, cleanupRaised, partialRows,
                   reportCalls>>
    /\ UNCHANGED <<uiVars, pureVars>>

\* excel_report.py 626-631: excel.Visible = False, the UTILITY sheet is
\* looked up and the list of operations is built; a COM call that raises
\* here ends the run before any operation.
ReportHide ==
    /\ rpc = "hide"
    /\ \/ /\ rpc' = NextPc("hide")
          /\ idx' = 1
          /\ UNCHANGED failedPhase
       \/ /\ rpc' = FailPc("hide")
          /\ failedPhase' = "Refresh"
          /\ UNCHANGED idx
    /\ UNCHANGED <<orchVars, webVars, sapVars, excelVars, phases, backups,
                   excelObj, workbookObj, refreshes, waits, waitTimeouts,
                   dispatched, opFailed, progress, saved, closeCalls,
                   quitCalls, cleanupRaised, partialRows, reportCalls>>
    /\ UNCHANGED <<uiVars, pureVars>>

\* excel_report.py 633-648: one iteration of the loop: the handler of the
\* operation's pattern is called; an exception is logged; emit(pct, name).
ReportOp ==
    /\ rpc = "ops"
    /\ idx <= Len(Plan)
    /\ phases' = Enter("ExecuteOperations")
    /\ dispatched' = Append(dispatched, idx)
    /\ progress' = Append(progress, Pct(idx))
    /\ \E outcome \in {"ok", "raise"}, part_way \in BOOLEAN :
          /\ part_way => (outcome = "raise" /\ Plan[idx] # "C")
          /\ opFailed' = (opFailed \/ outcome = "raise")
          /\ partialRows' = (partialRows \/ part_way)
          /\ idx' = NextOpIndex(idx, outcome)
          /\ rpc' = IF NextOpIndex(idx, outcome) > Len(Plan)
                    THEN NextPc("ops") ELSE "ops"
    /\ UNCHANGED <<orchVars, webVars, sapVars, excelVars, backups, failedPhase,
                   excelObj, workbookObj, refreshes, waits, waitTimeouts,
                   saved, closeCalls, quitCalls, cleanupRaised, reportCalls>>
    /\ UNCHANGED <<uiVars, pureVars>>

\* excel_report.py 651-652: emit(92), workbook.RefreshAll().
ReportFinalRefresh ==
    /\ rpc = "final"
    /\ phases' = Enter("FinalRefresh")
    /\ progress' = Append(progress, 92)
    /\ \/ /\ rpc' = NextPc("final")
          /\ refreshes' = refreshes + 1
          /\ UNCHANGED failedPhase
       \/ /\ rpc' = FailPc("final")
          /\ failedPhase' = "FinalRefresh"
          /\ UNCHANGED refreshes
    /\ UNCHANGED <<orchVars, webVars, sapVars, excelVars, backups, excelObj,
                   workbookObj, waits, waitTimeouts, idx, dispatched, opFailed,
                   saved, closeCalls, quitCalls, cleanupRaised, partialRows,
                   reportCalls>>
    /\ UNCHANGED <<uiVars, pureVars>>

\* excel_report.py 653: _wait_for_calculations(excel, max_wait=60).
ReportFinalWait ==
    /\ rpc = "finalwait"
    /\ \/ \E r \in {"Completed", "TimedOut"} :
            /\ waitTimeouts' = IF r = "TimedOut" THEN waitTimeouts + 1
                                                ELSE waitTimeouts
            /\ waits' = waits + 1
            /\ IF WaitAborts(r)
               THEN rpc' = FailPc("finalwait")
                    /\ failedPhase' = "FinalRefresh"
               ELSE rpc' = NextPc("finalwait")
                    /\ UNCHANGED failedPhase
       \/ /\ rpc' = FailPc("finalwait")
          /\ failedPhase' = "FinalRefresh"
          /\ UNCHANGED <<waits, waitTimeouts>>
    /\ UNCHANGED <<orchVars, webVars, sapVars, excelVars, phases, backups,
                   excelObj, workbookObj, refreshes, idx, dispatched, opFailed,
                   progress, saved, closeCalls, quitCalls, cleanupRaised,
                   partialRows, reportCalls>>
    /\ UNCHANGED <<uiVars, pureVars>>

\* emit(100) placed before workbook.Save().
SaveEmitsBeforeSave(outcome) == TRUE

\* excel_report.py 655-657: emit(100) is reached when workbook.Save() and
\* the assignment excel.Visible = True have returned.
SaveEmits(outcome) == outcome = "ok"

\* excel_report.py 655-657: workbook.Save(), excel.Visible = True,
\* emit(100); either COM call can raise.
ReportSave ==
    /\ rpc = "save"
    /\ phases' = Enter("Save")
    /\ \E outcome \in {"ok", "save_raises", "visible_raises"} :
          /\ saved' = (outcome # "save_raises")
          /\ progress' = IF SaveEmits(outcome) THEN Append(progress, 100)
                                               ELSE progress
          /\ rpc' = IF outcome = "ok" THEN NextPc("save") ELSE FailPc("save")
          /\ failedPhase' = IF outcome = "ok" THEN failedPhase ELSE "Save"
    /\ UNCHANGED <<orchVars, webVars, sapVars, excelVars, backups, excelObj,
                   workbookObj, refreshes, waits, waitTimeouts, idx,
                   dispatched, opFailed, closeCalls, quitCalls, cleanupRaised,
                   partialRows, reportCalls>>
    /\ UNCHANGED <<uiVars, pureVars>>

\* A finally block with workbook.Close and excel.Quit in one try block.
QuitReachedAfterCleanClose(excel_started, close_raised) ==
    excel_started /\ ~close_raised
\* excel_report.py 663-672: excel.Quit() is called when excel is not None;
\* it has a try block of its own, after the one of workbook.Close.
QuitReached(excel_started, close_raised) == excel_started

\* excel_report.py 659-674: the finally block closes the workbook and quits
\* Excel when they were obtained, and passes over an exception of either
\* call; the except block re-raises the exception of the try block.
ReportCleanup ==
    /\ rpc = "cleanup"
    /\ phases' = Enter("Closed")
    /\ \E close_raises, quit_raises \in BOOLEAN :
          LET close_raised == workbookObj /\ close_raises
              quit_called  == QuitReached(excelObj, close_raised)
          IN  /\ closeCalls' = IF workbookObj THEN closeCalls + 1
                                              ELSE closeCalls
              /\ quitCalls' = IF quit_called THEN quitCalls + 1
                                             ELSE quitCalls
              /\ cleanupRaised' =
                    (IF close_raised THEN {"Close"} ELSE {}) \cup
                    (IF quit_called /\ quit_raises THEN {"Quit"} ELSE {})
    /\ excelUsers' = excelUsers \ {"report"}
    /\ rpc' = IF failedPhase = "none" THEN "ret" ELSE "raised"
    /\ UNCHANGED <<orchVars, webVars, sapVars, lock, lockTimeouts, backups,
                   failedPhase, excelObj, workbookObj, refreshes, waits,
                   waitTimeouts, idx, dispatched, opFailed, progress, saved,
                   partialRows, reportCalls>>
    /\ UNCHANGED <<uiVars, pureVars>>

-----------------------------------------------------------------------------
(* The system *)

Threads == {"daily", "sap"}

\* No call of _wait_for_calculations is modelled step by step.
WaitIdle ==
    /\ max_wait = 0
    /\ calcDoneAt = 0
    /\ clock = 0
    /\ interval = 0
    /\ waitpc = "idle"
    /\ asyncCalls = 0

\* No call of subtract_one_business_day is modelled.
BDayIdle ==
    /\ date = 0
    /\ holidays = {}
    /\ bdpc = "idle"
    /\ bdInput = 0
    /\ bdFirst = 0
    /\ bdCalls = 0

\* The keys of an operation dict that the handlers read.  A key that the
\* dict does not hold is "none", 0 or the empty string.
NoOp ==
    [pattern |-> "none", keyword |-> <<>>, row_start |-> 0, date_col |-> 0,
     delta |-> 0, extract_col |-> 0, dest_col_header |-> <<>>]

\* No pattern handler is modelled call by call.
PatIdle ==
    /\ op = NoOp
    /\ source = <<>>
    /\ header_vals = <<>>
    /\ body_vals = <<>>
    /\ listRows = 0
    /\ log = <<>>
    /\ warnings = <<>>
    /\ selected = 0
    /\ patpc = "idle"

\* None of the functions m does not name is modelled on its own.
\* engine_path is no file before _find_engine_file returns one.
AuxIdle(m) ==
    /\ engine_path = [stem |-> 0, marked |-> FALSE, ext |-> "none",
                      mtime |-> 0]
    /\ m # "find" => /\ cwdFiles = {}
                     /\ findpc = "idle"
    /\ m # "config" => /\ config = 0
                       /\ cfgFile = "none"
                       /\ cfgpc = [t \in Sides |-> "idle"]
                       /\ cfgLeft = [t \in Sides |-> 0]
                       /\ cfgLoads = 0
                       /\ cfgRet = [t \in Sides |-> {}]
    /\ m # "backup" => /\ today = 0
                       /\ engineDoc = 0
                       /\ backupDir = <<>>
                       /\ backupLog = <<>>

\* The application after MainWindow.__init__: no worker, all buttons enabled.
InitMain ==
    /\ script_type = "none"
    /\ wpc = "idle"
    /\ finished = <<>>
    /\ results = [s \in Sides |-> None]
    /\ errors = [s \in Sides |-> NoError]
    /\ thr = [s \in Sides |-> "idle"]
    /\ webpc = "idle"
    /\ matpc = "idle"
    /\ dailypc = "idle"
    /\ dailyStep = 0
    /\ converted = {}
    /\ matDownloaded = FALSE
    /\ weberrors = <<>>
    /\ webError = <<>>
    /\ sappc = "idle"
    /\ sub = [j \in 1..Len(SubJobs) |-> "idle"]
    /\ joinIdx = 0
    /\ timed_out_threads = <<>>
    /\ sapError = "none"
    /\ lock = FreeLock
    /\ excelUsers = {}
    /\ lockTimeouts = [t \in Threads |-> 0]
    /\ rpc = "idle"
    /\ phases = <<>>
    /\ backups = 0
    /\ failedPhase = "none"
    /\ excelObj = FALSE
    /\ workbookObj = FALSE
    /\ refreshes = 0
    /\ waits = 0
    /\ waitTimeouts = 0
    /\ idx = 0
    /\ dispatched = <<>>
    /\ opFailed = FALSE
    /\ progress = <<>>
    /\ saved = FALSE
    /\ closeCalls = 0
    /\ quitCalls = 0
    /\ cleanupRaised = {}
    /\ partialRows = FALSE
    /\ reportCalls = 0
    /\ enabled = TaskTypes
    /\ handled = 0
    /\ dialog = "none"

Init == InitMain /\ WaitIdle /\ BDayIdle /\ PatIdle /\ AuxIdle("none")

Next ==
    \/ \E t \in TaskTypes : Start(t)
    \/ OnFinished
    \/ CloseDialog
    \/ EnsureImports
    \/ StartParallel
    \/ CallWebsite
    \/ CallSap
    \/ CallReport
    \/ RunWebsiteRecord
    \/ RunSapRecord
    \/ Join1
    \/ Join2
    \/ AggregateBoth
    \/ AggregateAllFailed
    \/ AggregateAllReport
    \/ WebsiteReturn
    \/ SapReturn
    \/ ReportReturn
    \/ WebMainStart
    \/ MatShortage
    \/ DailyRemoveOld
    \/ DailyNavigate
    \/ DailyDownload
    \/ ConvertAcquire
    \/ ConvertAcquireTimeout
    \/ ConvertEnd
    \/ WebJoin1
    \/ WebJoin2
    \/ SapMainStart
    \/ \E j \in 1..Len(SubJobs) : SubJob(j)
    \/ SapJoin
    \/ SapJoinTimeout
    \/ SapAfterJoin
    \/ CloseExcelBegin
    \/ CloseExcelEnd
    \/ ReleaseExcelAcquire
    \/ ReleaseExcelTimeout
    \/ ReleaseExcelEnd
    \/ CloseSap
    \/ ReportDiscover
    \/ ReportBackup
    \/ ReportOpen
    \/ ReportRefresh
    \/ ReportWait
    \/ ReportHide
    \/ ReportOp
    \/ ReportFinalRefresh
    \/ ReportFinalWait
    \/ ReportSave
    \/ ReportCleanup

Spec == Init /\ [][Next]_vars

-----------------------------------------------------------------------------
(* excel_report.py: _wait_for_calculations, step by step.  Time is counted  *)
(* in ticks of 1/32 s, in which 0.5 s and its multiples by 1.5 up to the    *)
(* cap of 3 s are integers; the clock advances while the function sleeps.   *)

TicksPerSecond == 32

\* The largest max_wait, in seconds, of the calls that are explored, next to
\* the default of 60 seconds.
MaxWaitSeconds == 4

\* How long after max_wait, in seconds, the calculation may still end.
MaxOvershootSeconds == 4

\* calcDoneAt of a calculation that never ends.
Never == -1

\* excel_report.py 79, 623, 653: the values of max_wait, in ticks.
MaxWaits == {m * TicksPerSecond : m \in (1..MaxWaitSeconds) \cup {60}}

\* excel_report.py 85: interval = 0.5
InitialInterval == TicksPerSecond \div 2

\* excel_report.py 91: the cap of 3 s of the interval
IntervalCap == 3 * TicksPerSecond

Min(a, b) == IF a <= b THEN a ELSE b

\* excel_report.py 91: interval = min(interval * 1.5, 3)
NextInterval(i) == Min((i * 3) \div 2, IntervalCap)

\* excel_report.py 87: excel.CalculationState read at time t
CalculationDone(t) == calcDoneAt # Never /\ calcDoneAt <= t

\* A call _wait_for_calculations(excel, max_wait) at line 84, for a
\* calculation that ends at some time or never.
InitWait ==
    /\ InitMain
    /\ BDayIdle
    /\ PatIdle
    /\ AuxIdle("none")
    /\ max_wait \in MaxWaits
    /\ calcDoneAt \in
          (0..(max_wait + MaxOvershootSeconds * TicksPerSecond)) \cup {Never}
    /\ clock = 0
    /\ interval = InitialInterval
    /\ waitpc = "test"
    /\ asyncCalls = 0

\* excel_report.py 87: while excel.CalculationState != 0
WaitTest ==
    /\ waitpc = "test"
    /\ waitpc' = IF CalculationDone(clock) THEN "async" ELSE "deadline"
    /\ UNCHANGED <<max_wait, calcDoneAt, clock, interval, asyncCalls>>
    /\ UNCHANGED <<mainVars, bdayVars, patVars, auxVars>>

\* excel_report.py 88-90: if time.time() - start > max_wait: return False
WaitDeadline ==
    /\ waitpc = "deadline"
    /\ waitpc' = IF clock > max_wait THEN "TimedOut" ELSE "sleep"
    /\ UNCHANGED <<max_wait, calcDoneAt, clock, interval, asyncCalls>>
    /\ UNCHANGED <<mainVars, bdayVars, patVars, auxVars>>

\* excel_report.py 91-92: time.sleep(interval), then the next interval
WaitSleep ==
    /\ waitpc = "sleep"
    /\ clock' = clock + interval
    /\ interval' = NextInterval(interval)
    /\ waitpc' = "test"
    /\ UNCHANGED <<max_wait, calcDoneAt, asyncCalls>>
    /\ UNCHANGED <<mainVars, bdayVars, patVars, auxVars>>

\* excel_report.py 94-95: excel.CalculateUntilAsyncQueriesDone(); return True
WaitAsync ==
    /\ waitpc = "async"
    /\ asyncCalls' = asyncCalls + 1
    /\ waitpc' = "Completed"
    /\ UNCHANGED <<max_wait, calcDoneAt, clock, interval>>
    /\ UNCHANGED <<mainVars, bdayVars, patVars, auxVars>>

NextWait ==
    \/ WaitTest
    \/ WaitDeadline
    \/ WaitSleep
    \/ WaitAsync

SpecWait == InitWait /\ [][NextWait]_vars

-----------------------------------------------------------------------------
(* helpers.py: get_company_holidays and subtract_one_business_day.  A date  *)
(* is its proleptic Gregorian ordinal (date.toordinal(): day 1 is Monday,   *)
(* January 1 of year 1); datetime(y, m, d) builds one, .year, .month, .day  *)
(* and .weekday() take it apart.                                            *)

\* The calls that are explored have their argument in FirstYear..LastYear.
FirstYear == 2020
LastYear == 2027

\* The number of calls of a chain: each call after the first is given the
\* date the call before it returned.
MaxCalls == 5

IsLeap(y) == (y % 4 = 0) /\ ((y % 100 # 0) \/ (y % 400 = 0))

DaysInMonth(y, m) ==
    IF m = 2 THEN (IF IsLeap(y) THEN 29 ELSE 28)
    ELSE IF m \in {4, 6, 9, 11} THEN 30 ELSE 31

RECURSIVE DaysBeforeMonth(_, _)
DaysBeforeMonth(y, m) ==
    IF m = 1 THEN 0 ELSE DaysBeforeMonth(y, m - 1) + DaysInMonth(y, m - 1)

DaysBeforeYear(y) ==
    365 * (y - 1) + ((y - 1) \div 4) - ((y - 1) \div 100) + ((y - 1) \div 400)

\* datetime(y, m, d)
Datetime(y, m, d) == DaysBeforeYear(y) + DaysBeforeMonth(y, m) + d

\* The years a date of a chain of calls, or a holiday, can lie in.
Years == (FirstYear - 2)..(LastYear + 1)

\* date.year, date.month, date.day
YearOf(n) ==
    CHOOSE y \in Years : DaysBeforeYear(y) < n /\ n <= DaysBeforeYear(y + 1)
MonthOf(n) ==
    CHOOSE m \in 1..12 :
        /\ Datetime(YearOf(n), m, 1) <= n
        /\ n < Datetime(YearOf(n), m, 1) + DaysInMonth(YearOf(n), m)
DayOf(n) == n - Datetime(YearOf(n), MonthOf(n), 1) + 1

\* date.weekday(): Monday is 0, Sunday is 6
Weekday(n) == (n + 6) % 7

\* get_company_holidays without the observed day of Independence Day.
ObservedDayNone(year) == {}

\* helpers.py 51-56: the observed day of a July 4 that falls on a weekend.
ObservedDay(year) ==
    IF Weekday(Datetime(year, 7, 4)) = 5 THEN {Datetime(year, 7, 3)}
    ELSE IF Weekday(Datetime(year, 7, 4)) = 6 THEN {Datetime(year, 7, 5)}
    ELSE {}

\* helpers.py 60-63, 67-70, 80-83: the first Monday on or after a date.
FirstMonday(first) ==
    IF Weekday(first) = 0 THEN first
    ELSE first + ((7 - Weekday(first)) % 7)

\* helpers.py 88-92: Thanksgiving, three weeks after the first Thursday.
Thanksgiving(year) ==
    LET nov_first == Datetime(year, 11, 1)
        first_thursday == IF Weekday(nov_first) = 3 THEN nov_first
                          ELSE nov_first + ((3 - Weekday(nov_first)) % 7)
    IN  first_thursday + 3 * 7

\* helpers.py 37-98: get_company_holidays(year)
get_company_holidays(year) ==
    {Datetime(year, 1, 1), Datetime(year, 6, 19), Datetime(year, 7, 4),
     Datetime(year, 12, 24), Datetime(year, 12, 25)}
    \cup ObservedDay(year)
    \cup {FirstMonday(Datetime(year, 1, 1)) + 2 * 7}
    \cup {FirstMonday(Datetime(year, 2, 1)) + 2 * 7}
    \cup {Datetime(year, 5, 31) - (Weekday(Datetime(year, 5, 31)) % 7)}
    \cup {FirstMonday(Datetime(year, 9, 1))}
    \cup {Thanksgiving(year), Thanksgiving(year) + 1}

\* subtract_one_business_day with a Sunday that goes back three days.
WeekendStepSundayThree(wd) == IF wd = 5 THEN 1 ELSE IF wd = 6 THEN 3 ELSE 0

\* helpers.py 123-130: the days the loop goes back from a Saturday and from
\* a Sunday; 0 on the other days.
WeekendStep(wd) == IF wd = 5 THEN 1 ELSE IF wd = 6 THEN 2 ELSE 0

\* The dates of FirstYear..LastYear.
InputDates == (DaysBeforeYear(FirstYear) + 1)..DaysBeforeYear(LastYear + 1)

\* A call subtract_one_business_day(date) for a date of InputDates.
InitBDay ==
    /\ InitMain
    /\ WaitIdle
    /\ PatIdle
    /\ AuxIdle("none")
    /\ bdInput \in InputDates
    /\ bdFirst = bdInput
    /\ date = bdInput
    /\ holidays = {}
    /\ bdpc = "start"
    /\ bdCalls = 0

\* helpers.py 106-112: date -= timedelta(days=1); the holidays of the year
\* of that date and of the year before it.
BDayStart ==
    /\ bdpc = "start"
    /\ date' = date - 1
    /\ holidays' = get_company_holidays(YearOf(date - 1))
                     \cup get_company_holidays(YearOf(date - 1) - 1)
    /\ bdpc' = "loop"
    /\ UNCHANGED <<bdInput, bdFirst, bdCalls>>
    /\ UNCHANGED <<mainVars, waitVars, patVars, auxVars>>

\* helpers.py 114-135: one pass of the loop: a holiday goes back one day,
\* a Saturday one day, a Sunday two days; any other date is returned.
BDayLoop ==
    /\ bdpc = "loop"
    /\ LET date_as_datetime ==
               Datetime(YearOf(date), MonthOf(date), DayOf(date))
       IN  IF date_as_datetime \in holidays
           THEN date' = date - 1 /\ UNCHANGED <<bdpc, bdCalls>>
           ELSE IF WeekendStep(Weekday(date)) > 0
           THEN date' = date - WeekendStep(Weekday(date))
                /\ UNCHANGED <<bdpc, bdCalls>>
           ELSE bdpc' = "ret" /\ bdCalls' = bdCalls + 1 /\ UNCHANGED date
    /\ UNCHANGED <<holidays, bdInput, bdFirst>>
    /\ UNCHANGED <<mainVars, waitVars, patVars, auxVars>>

\* The returned date is the argument of one more call.
BDayAgain ==
    /\ bdpc = "ret"
    /\ bdCalls < MaxCalls
    /\ bdInput' = date
    /\ bdpc' = "start"
    /\ UNCHANGED <<date, holidays, bdFirst, bdCalls>>
    /\ UNCHANGED <<mainVars, waitVars, patVars, auxVars>>

NextBDay ==
    \/ BDayStart
    \/ BDayLoop
    \/ BDayAgain

SpecBDay == InitBDay /\ [][NextBDay]_vars

-----------------------------------------------------------------------------
(* Properties of the orchestrator *)

WebOk == webpc = "ret"
SapOk == sappc = "ret"
ProducersEnded == webpc \in {"ret", "raised"} /\ sappc \in {"ret", "raised"}

\* C1: task 'both' ends with exactly the event its two producers' outcomes
\* call for: success only if web_download.main and sap_download.main both
\* returned; the partial-success failure marking the failed side if one of
\* them raised; the 'both failed' failure if both raised.
C1_BothOutcome ==
    (script_type = "both" /\ wpc = "done") =>
        /\ ProducersEnded
        /\ Len(finished) = 1
        /\ finished[1].ok <=> (WebOk /\ SapOk)
        /\ (WebOk /\ ~SapOk) =>
              finished[1].msg = "Partial success: Website ok, SAP FAILED"
        /\ (~WebOk /\ SapOk) =>
              finished[1].msg = "Partial success: Website FAILED, SAP ok"
        /\ (~WebOk /\ ~SapOk) => finished[1].msg = "Both scripts failed!"

C1_Witness ==
    /\ script_type = "both"
    /\ wpc = "done"
    /\ ~WebOk
    /\ SapOk
    /\ finished = <<Event(FALSE, "Partial success: Website FAILED, SAP ok")>>

\* C2: in task 'all' excel_report.main is called only when both producer
\* threads have terminated and both producers returned; if a producer
\* raised, the pipeline is never started and the final event is the failure
\* naming the failed download(s) and saying that the report was skipped.
C2_ReportOnlyAfterDownloads ==
    script_type = "all" =>
        /\ (reportCalls > 0 \/ rpc # "idle") =>
              /\ thr["website"] = "dead" /\ thr["sap"] = "dead"
              /\ WebOk /\ SapOk
        /\ (wpc = "done" /\ ~(WebOk /\ SapOk)) =>
              /\ reportCalls = 0
              /\ rpc = "idle"
              /\ phases = <<>>
              /\ Len(finished) = 1
              /\ ~finished[1].ok
              /\ (~WebOk /\ ~SapOk) => finished[1].msg =
                   "Downloads failed - " \o
                   "both PDBS and SAP failed. Excel report skipped."
              /\ (~WebOk /\ SapOk) => finished[1].msg =
                   "Downloads failed - " \o
                   "PDBS failed, SAP succeeded. Excel report skipped."
              /\ (WebOk /\ ~SapOk) => finished[1].msg =
                   "Downloads failed - " \o
                   "PDBS succeeded, SAP failed. Excel report skipped."

C2_Witness ==
    /\ script_type = "all"
    /\ wpc = "done"
    /\ WebOk
    /\ ~SapOk
    /\ reportCalls = 0
    /\ Len(finished) = 1

\* C3: whatever the task and whatever fails (the loading of the automation
\* modules included), run ends without an exception and has emitted exactly
\* one finished event.
C3_ExactlyOneFinalEvent ==
    /\ Len(finished) <= 1
    /\ wpc # "raised"
    /\ wpc = "done" => Len(finished) = 1

\* C4: in the parallel phase at most one thread drives Excel at a time, and
\* a producer thread that drives Excel holds the operation lock.
C4_ExcelSerialized ==
    wpc \in {"join1", "join2"} =>
        /\ Cardinality(excelUsers) <= 1
        /\ \A t \in excelUsers : lock.owner = t

\* C9: in 'both' and 'all' a finished event exists only when both producer
\* threads have terminated.
C9_EventAfterBothThreads ==
    (script_type \in {"both", "all"} /\ finished # <<>>) =>
        /\ thr["website"] = "dead"
        /\ thr["sap"] = "dead"
        /\ ProducersEnded

\* SAP failed at once (no sub-job was ever started) while the web producer
\* went on to convert a report; the event came after both.
C9_Witness ==
    /\ script_type = "both"
    /\ Len(finished) = 1
    /\ sappc = "raised"
    /\ \A j \in 1..Len(SubJobs) : sub[j] = "idle"
    /\ converted # {}
    /\ thr["website"] = "dead"

\* C10: in 'all', after two successful downloads the pipeline is called
\* exactly once; the final event is success exactly when the pipeline
\* returned, and when it raised the event is the failure saying that the
\* downloads succeeded but the report failed.
C10_AllReportOutcome ==
    script_type = "all" =>
        /\ reportCalls <= 1
        /\ (wpc = "done" /\ WebOk /\ SapOk) =>
              /\ reportCalls = 1
              /\ rpc \in {"ret", "raised"}
              /\ Len(finished) = 1
              /\ finished[1].ok <=> rpc = "ret"
              /\ rpc = "ret" =>
                    finished[1].msg = "All tasks completed successfully!"
              /\ rpc = "raised" => finished[1].msg =
                    "Downloads succeeded but Excel report failed: report"

C10_Witness ==
    /\ script_type = "all"
    /\ wpc = "done"
    /\ WebOk /\ SapOk
    /\ rpc = "raised"
    /\ reportCalls = 1
    /\ finished =
         <<Event(FALSE, "Downloads succeeded but Excel report failed: report")>>

-----------------------------------------------------------------------------
(* Properties of the operation lock *)

ConvertInProgress == dailypc = "converting"
ReleaseExcelInProgress == sappc = "releasing_excel"

\* C5: the operation lock is held by a thread exactly while its call of
\* convert_xls_to_xlsx or release_excel is between the acquisition and the
\* end of the finally block, once (so it is free when no call is in
\* progress); a timed-out acquisition is logged and leaves the lock, Excel
\* and the caller's error list alone, and converts nothing.
C5_LockStateOk ==
    /\ lock.owner = "daily" <=> ConvertInProgress
    /\ lock.owner = "sap" <=> ReleaseExcelInProgress
    /\ lock.count = (IF lock.owner = "nobody" THEN 0 ELSE 1)
    /\ (~ConvertInProgress /\ ~ReleaseExcelInProgress) => lock = FreeLock

C5_TimeoutStep ==
    \A t \in Threads :
        lockTimeouts'[t] > lockTimeouts[t] =>
            /\ lockTimeouts'[t] = lockTimeouts[t] + 1
            /\ lock.owner \notin {t, "nobody"}
            /\ lock' = lock
            /\ excelUsers' = excelUsers
            /\ t \notin excelUsers
            /\ converted' = converted
            /\ weberrors' = weberrors
            /\ sappc' # "raised"

C5_LockReleasedOnEveryPath == []C5_LockStateOk /\ [][C5_TimeoutStep]_vars

\* Both kinds of acquisition happened in the run and the lock is free at its
\* end.
C5_Witness ==
    /\ wpc = "done"
    /\ lockTimeouts["daily"] > 0
    /\ converted # {}
    /\ sappc = "ret"
    /\ lock = FreeLock

-----------------------------------------------------------------------------
(* Properties of the report pipeline *)

PhaseOrder == <<"Discover", "Backup", "Open", "Refresh", "ExecuteOperations",
                "FinalRefresh", "Save", "Closed">>

PhaseIndex(ph) == CHOOSE i \in 1..Len(PhaseOrder) : PhaseOrder[i] = ph

Entered(ph) == \E k \in 1..Len(phases) : phases[k] = ph

\* The phases entered, without the closing of the workbook.
WorkPhases == SelectSeq(phases, LAMBDA ph : ph # "Closed")

\* C6: the operations are handed to their handlers in plan order, each
\* once; a handler's exception neither ends the loop nor fails the
\* pipeline: after the loop all operations were dispatched, and only the
\* final refresh or the save can still fail.
C6_OperationsInPlanOrder ==
    /\ Len(dispatched) <= Len(Plan)
    /\ \A k \in 1..Len(dispatched) : dispatched[k] = k
    /\ rpc = "ops" => (idx = Len(dispatched) + 1 /\ idx <= Len(Plan))
    /\ (Entered("FinalRefresh") \/ Entered("Save") \/ saved) =>
          Len(dispatched) = Len(Plan)
    /\ (dispatched # <<>> /\ failedPhase # "none") =>
          /\ failedPhase \in {"FinalRefresh", "Save"}
          /\ Len(dispatched) = Len(Plan)

C6_Witness ==
    /\ opFailed
    /\ rpc = "ret"
    /\ saved
    /\ Len(dispatched) = Len(Plan)

\* C7: the phases of a run are entered in the order Discover, Backup, Open,
\* Refresh, ExecuteOperations, FinalRefresh, Save, Closed, each after the
\* previous one is complete; the backup copy exists before the workbook is
\* opened or changed; a run that returns went through all eight.
C7_PhasesInOrder ==
    /\ \A i, j \in 1..Len(phases) :
          i < j => PhaseIndex(phases[i]) < PhaseIndex(phases[j])
    /\ Entered("Backup") => progress # <<>>
    /\ (Entered("Open") \/ excelObj \/ workbookObj \/ refreshes > 0
          \/ dispatched # <<>> \/ saved) => backups = 1
    /\ Entered("Refresh") => workbookObj
    /\ Entered("ExecuteOperations") =>
          (refreshes >= RefreshCycles /\ waits >= RefreshCycles)
    /\ Entered("FinalRefresh") => Len(dispatched) = Len(Plan)
    /\ Entered("Save") =>
          (refreshes = RefreshCycles + 1 /\ waits = RefreshCycles + 1)
    /\ rpc = "ret" => (phases = PhaseOrder /\ saved)

C7_Witness ==
    /\ rpc = "ret"
    /\ phases = PhaseOrder
    /\ backups = 1

\* C8: an exception in Discover, Backup, Open, Refresh, FinalRefresh or Save
\* leaves excel_report.main as an exception and no later working phase is
\* entered: nothing is dispatched after a failed refresh, nothing is saved
\* after a failed final refresh, and the caller reports a failure.
C8_PhaseFailureIsFatal ==
    /\ failedPhase # "none" =>
          /\ rpc \in {"cleanup", "raised"}
          /\ WorkPhases # <<>>
          /\ WorkPhases[Len(WorkPhases)] = failedPhase
          /\ failedPhase # "Save" => ~saved
          /\ wpc = "done" => (Len(finished) = 1 /\ ~finished[1].ok)
    /\ failedPhase \in {"Discover", "Backup", "Open", "Refresh"} =>
          dispatched = <<>>
    /\ rpc = "ret" => failedPhase = "none"

C8_Witness ==
    /\ failedPhase = "Refresh"
    /\ rpc = "raised"
    /\ refreshes = 2
    /\ wpc = "done"

-----------------------------------------------------------------------------
(* Properties of the main window *)

\* A WorkerThread has been started and its finished event has not been
\* handled by the slot of the main window.
RunActive == wpc # "idle" /\ handled = 0

\* C11: at most one run is active: while a run is active all five buttons
\* are disabled, a worker is started only when no run is active, the slot of
\* the finished event enables all five buttons, and a click rejected for
\* missing credentials starts nothing and disables nothing.
C11_OneRunAtATime ==
    /\ [](RunActive => enabled = {})
    /\ [][(\E t \in TaskTypes : Start(t) /\ wpc' = "imports")
             => ~RunActive]_vars
    /\ [][handled' = handled + 1 => enabled' = TaskTypes]_vars
    /\ [][(dialog = "none" /\ dialog' = "Missing Information")
             => UNCHANGED <<orchVars, webVars, sapVars, excelVars,
                            reportVars, reportCalls, enabled, handled>>]_vars

C11_Witness ==
    /\ wpc = "done"
    /\ handled = 1
    /\ enabled = TaskTypes
    /\ dialog = "none"
    /\ script_type = "all"
    /\ saved

-----------------------------------------------------------------------------
(* Properties of the two producers *)

\* C12: sap_download.main raises whenever one of its three sub-jobs fails,
\* also when the sub-job ends with an exception before its timeout, so the
\* orchestrator records the SAP side as failed.
C12_SubJobFailureRaises ==
    /\ sappc = "ret" => \A j \in 1..Len(SubJobs) : sub[j] = "ok"
    /\ (thr["sap"] = "dead" /\ \E j \in 1..Len(SubJobs) : sub[j] = "exc")
          => results["sap"] = Obj(1)

\* C13: a sub-job whose join times out is recorded as timed out, the join
\* loop still joins the remaining sub-jobs, and only after all three joins
\* does sap_download.main raise, with a message that names every sub-job
\* that timed out.
C13_TimeoutReportedAfterAllJoined ==
    /\ [](sapError \notin {"none", "startup"} =>
             /\ sappc = "raised"
             /\ joinIdx = Len(SubJobs) + 1
             /\ timed_out_threads # <<>>
             /\ sapError = TimeoutMessage(timed_out_threads))
    /\ []((joinIdx = Len(SubJobs) + 1 /\ timed_out_threads # <<>>) =>
             sappc \in {"join", "raised"})
    /\ [][(joinIdx >= 1 /\ joinIdx' = joinIdx + 1) =>
             timed_out_threads' =
                 IF sub[joinIdx] = "run"
                 THEN Append(timed_out_threads, SubJobs[joinIdx])
                 ELSE timed_out_threads]_vars

C13_Witness ==
    /\ sappc = "raised"
    /\ sapError = "Threads did not complete: MO_Backorders, DAILY_MO_MB25"
    /\ sub[2] = "ok"
    /\ joinIdx = 4

\* C14: web_download.main returns or raises only after both sub-jobs have
\* terminated; it raises exactly when at least one of them raised, and the
\* message has one line for each sub-job that raised; the end of one
\* sub-job by an exception leaves the other one where it is.
C14_WebWaitsAndReports ==
    /\ [](webpc \in {"ret", "raised"} =>
             /\ matpc \in Terminated
             /\ dailypc \in Terminated
             /\ (webpc = "raised") = (matpc = "raised" \/ dailypc = "raised")
             /\ {webError[i] : i \in 1..Len(webError)} =
                   {"MatShortage: error" : x \in {matpc} \cap {"raised"}}
                   \cup {"DailyReport: error" : x \in {dailypc} \cap {"raised"}}
             /\ Len(webError) = Cardinality({matpc} \cap {"raised"})
                                + Cardinality({dailypc} \cap {"raised"}))
    /\ [][(matpc # "raised" /\ matpc' = "raised") => dailypc' = dailypc]_vars
    /\ [][(dailypc # "raised" /\ dailypc' = "raised") => matpc' = matpc]_vars

C14_Witness ==
    /\ webpc = "raised"
    /\ webError = <<"MatShortage: error">>
    /\ dailypc = "returned"
    /\ converted = {"Billing", "Incompletes", "Completed"}

-----------------------------------------------------------------------------
(* Properties of the refresh cycles and of the progress events *)

\* C15: when the first operation is dispatched the workbook has been
\* refreshed exactly 3 times; every refresh is followed at once by one call
\* of the waiter; a waiter call that returns TimedOut, in the refresh cycles
\* or after the final refresh, is followed by the next step of the pipeline.
C15_ThreeRefreshesTimeoutNotFatal ==
    /\ [](rpc \in {"hide", "ops"} => (refreshes = 3 /\ waits = 3))
    /\ [][(dispatched = <<>> /\ dispatched' # <<>>) =>
             (refreshes = 3 /\ waits = 3)]_vars
    /\ [][refreshes' = refreshes + 1 =>
             (refreshes = waits /\ rpc' \in {"wait", "finalwait"})]_vars
    /\ [][waits' = waits + 1 =>
             (refreshes = waits + 1 /\ rpc \in {"wait", "finalwait"})]_vars
    /\ [](rpc \in {"wait", "finalwait"} => refreshes = waits + 1)
    /\ [][waitTimeouts' = waitTimeouts + 1 =>
             /\ failedPhase' = "none"
             /\ rpc' = IF rpc = "finalwait" THEN "save"
                       ELSE IF waits' = 3 THEN "hide" ELSE "refresh"]_vars

C15_Witness ==
    /\ rpc = "ret"
    /\ waitTimeouts = 4
    /\ Len(dispatched) = Len(Plan)
    /\ saved

\* The progress events of the steps before the first operation.
ProgressPrefix == <<0, 2, 5, 10, 20>>

\* C17: the percents emitted in one run are in 0..100 and never decrease;
\* every operation, failed or not, is followed by exactly one event; the
\* event after operation k of N carries 20 + floor(70 * k / N), which is in
\* 20..90, and the event of the last operation carries 90.
C17_ProgressOfOperations ==
    /\ [](\A i \in 1..Len(progress) : progress[i] \in 0..100)
    /\ [](\A i \in 1..Len(progress) - 1 : progress[i] <= progress[i + 1])
    /\ [](dispatched # <<>> =>
             /\ Len(progress) >= Len(ProgressPrefix) + Len(dispatched)
             /\ SubSeq(progress, 1, Len(ProgressPrefix)) = ProgressPrefix
             /\ rpc = "ops" =>
                   Len(progress) = Len(ProgressPrefix) + Len(dispatched))
    /\ [](\A k \in 1..Len(dispatched) :
             /\ progress[Len(ProgressPrefix) + k]
                   = 20 + ((70 * k) \div Len(Plan))
             /\ progress[Len(ProgressPrefix) + k] \in 20..90
             /\ k = Len(Plan) => progress[Len(ProgressPrefix) + k] = 90)
    /\ [][dispatched' # dispatched /\ dispatched' # <<>> =>
             /\ Len(dispatched') = Len(dispatched) + 1
             /\ Len(progress') = Len(progress) + 1]_vars

C17_Witness ==
    /\ Len(dispatched) = Len(Plan)
    /\ opFailed
    /\ progress[Len(progress)] = 100
    /\ progress[Len(ProgressPrefix) + 1] = 23

\* C18 as stated: the 100% event is emitted exactly when the final refresh
\* was completed and the document was persisted; it is the last event of
\* the run, and a failing run never emits it.
C18_HundredIffPersisted ==
    /\ (\E i \in 1..Len(progress) : progress[i] = 100) =
          (saved /\ refreshes = RefreshCycles + 1 /\ waits = RefreshCycles + 1)
    /\ \A i \in 1..Len(progress) : progress[i] = 100 => i = Len(progress)
    /\ rpc = "raised" => \A i \in 1..Len(progress) : progress[i] # 100

\* C18, amended: the 100% event is emitted exactly when the final refresh
\* was completed, the document was persisted and Excel was made visible
\* again without an exception, that is, when no phase failed; it is the last
\* event of the run, and a failing run never emits it.
C18_HundredIffSavedAndVisible ==
    /\ (\E i \in 1..Len(progress) : progress[i] = 100) =
          (saved /\ failedPhase = "none"
             /\ refreshes = RefreshCycles + 1 /\ waits = RefreshCycles + 1)
    /\ \A i \in 1..Len(progress) : progress[i] = 100 => i = Len(progress)
    /\ (rpc = "raised" \/ failedPhase # "none") =>
          \A i \in 1..Len(progress) : progress[i] # 100

C18_Witness ==
    /\ rpc = "ret"
    /\ saved
    /\ progress[Len(progress)] = 100
    /\ wpc = "done"
    /\ script_type = "excel_report"

-----------------------------------------------------------------------------
(* Properties of _wait_for_calculations *)

\* C16: the waiter returns Completed only if the calculation state was done
\* before max_wait elapsed, and TimedOut whenever the state is still not
\* done when max_wait has elapsed; a call that returns Completed has called
\* CalculateUntilAsyncQueriesDone exactly once, one that returns TimedOut
\* never.
C16_WaiterResult ==
    /\ waitpc = "Completed" =>
          (calcDoneAt # Never /\ calcDoneAt <= max_wait /\ asyncCalls = 1)
    /\ (waitpc \in {"Completed", "TimedOut"}
          /\ (calcDoneAt = Never \/ calcDoneAt > max_wait)) =>
          waitpc = "TimedOut"
    /\ waitpc = "TimedOut" => asyncCalls = 0

-----------------------------------------------------------------------------
(* Properties of subtract_one_business_day *)

\* The holidays as the specification lists them, by month, day and weekday.
IsHoliday(n) ==
    LET m == MonthOf(n)
        d == DayOf(n)
        wd == Weekday(n)
    IN  \/ <<m, d>> \in {<<1, 1>>, <<6, 19>>, <<7, 4>>, <<12, 24>>, <<12, 25>>}
        \/ m = 7 /\ d = 3 /\ wd = 4
        \/ m = 7 /\ d = 5 /\ wd = 0
        \/ m = 1 /\ wd = 0 /\ d \in 15..21
        \/ m = 2 /\ wd = 0 /\ d \in 15..21
        \/ m = 5 /\ wd = 0 /\ d \in 25..31
        \/ m = 9 /\ wd = 0 /\ d \in 1..7
        \/ m = 11 /\ wd = 3 /\ d \in 22..28
        \/ m = 11 /\ wd = 4 /\ d \in 23..29

IsBusinessDay(n) == Weekday(n) \notin {5, 6} /\ ~IsHoliday(n)

\* C19: every call of subtract_one_business_day ends, because each pass of
\* the loop that does not return moves the date back and the date never is
\* more than five days before the argument; the date it returns is earlier
\* than its argument and is neither a Saturday, nor a Sunday, nor a holiday,
\* also when it lies in the year before the argument.
C19_ReturnsEarlierBusinessDay ==
    /\ [](bdpc = "ret" => (date < bdInput /\ IsBusinessDay(date)))
    /\ [](bdpc \in {"loop", "ret"} => bdInput - date \in 1..5)
    /\ [][(bdpc = "loop" /\ bdpc' = "loop") => date' < date]_vars

C19_Witness ==
    /\ bdpc = "ret"
    /\ MonthOf(bdInput) = 1
    /\ DayOf(bdInput) = 2
    /\ YearOf(date) = YearOf(bdInput) - 1
    /\ bdInput - date = 4

\* C20: no date between the returned date and the argument is a business
\* day; five calls in a chain that starts on a Friday with no holiday in the
\* seven days before it return the Friday seven days earlier.
C20_NearestEarlierBusinessDay ==
    /\ bdpc = "ret" =>
          \A n \in (date + 1)..(bdInput - 1) : ~IsBusinessDay(n)
    /\ (bdpc = "ret" /\ bdCalls = 5 /\ Weekday(bdFirst) = 4
          /\ \A n \in (bdFirst - 7)..(bdFirst - 1) : ~IsHoliday(n))
          => (date = bdFirst - 7 /\ Weekday(date) = 4)

C20_Witness ==
    /\ bdpc = "ret"
    /\ bdCalls = 5
    /\ Weekday(bdFirst) = 4
    /\ date = bdFirst - 7
    /\ \A n \in (bdFirst - 7)..(bdFirst - 1) : ~IsHoliday(n)

-----------------------------------------------------------------------------
(* The pattern handlers of excel_report.py (specification SpecPat).        *)
(* A str is the sequence of its characters.                                *)

\* The values win32com returns for a cell: None, a str, a float.
PyNone == [t |-> "none", s |-> <<>>, n |-> 0]
Str(s) == [t |-> "str", s |-> s, n |-> 0]
Num(n) == [t |-> "num", s |-> <<>>, n |-> n]

\* bool(v), as in "if cell_val and ..." and "if not row_data[...]"
Truthy(v) ==
    CASE v.t = "none" -> FALSE
      [] v.t = "str"  -> v.s # <<>>
      [] v.t = "num"  -> v.n # 0

\* The decimal digits of n
RECURSIVE Digits(_)
Digits(n) ==
    LET Digit(d) ==
            <<"0", "1", "2", "3", "4", "5", "6", "7", "8", "9">>[d + 1]
    IN  IF n < 10 THEN <<Digit(n)>>
        ELSE Append(Digits(n \div 10), Digit(n % 10))

\* str(v): a float of integral value n reads "n.0"
PyStr(v) ==
    CASE v.t = "none" -> <<"N", "o", "n", "e">>
      [] v.t = "str"  -> v.s
      [] v.t = "num"  -> Digits(v.n) \o <<".", "0">>

\* keyword in text
Contains(keyword, text) ==
    \E i \in 0..(Len(text) - Len(keyword)) :
        SubSeq(text, i + 1, i + Len(keyword)) = keyword

MatchesAnyText(cell_val, keyword) == Truthy(cell_val)
\* cell_val and op["keyword"] in str(cell_val)
Matches(cell_val, keyword) ==
    Truthy(cell_val) /\ Contains(keyword, PyStr(cell_val))

\* v in (None, "", 0)
InBlank(v) == v = PyNone \/ v = Str(<<>>) \/ v = Num(0)

\* Range.Value: the value of a single cell, else a tuple of row tuples.
RangeValue(grid) ==
    IF Len(grid) = 1 /\ Len(grid[1]) = 1
    THEN [isTuple |-> FALSE, scalar |-> grid[1][1], rows |-> <<>>]
    ELSE [isTuple |-> TRUE, scalar |-> PyNone, rows |-> grid]

\* op["col_offset"](j): every lambda of the plan is j + a constant
col_offset(j) == j + op.delta

RowStartTop(default) == 1
\* op.get("row_start", default)
RowStart(default) == IF op.row_start = 0 THEN default ELSE op.row_start

\* today_str or prev_bday_str, the second member of op["date_col"]
date_val == Str(<<"d">>)

\* The records of log: a call of ListRows.Add() with the index of the row
\* it appends, the write of the date stamp, the write of a source value.
\* Rows and columns are counted from the first body row and the first
\* column of the destination table.
AddEvent(next_row) == [k |-> "add", row |-> next_row, col |-> 0,
                       val |-> PyNone]
DateWriteFirstRow(row) == [k |-> "date", row |-> 1, col |-> op.date_col,
                           val |-> date_val]
DateWrite(row) == [k |-> "date", row |-> row, col |-> op.date_col,
                   val |-> date_val]
ValueWrite(row, col, val) == [k |-> "value", row |-> row, col |-> col,
                              val |-> val]

AppendRowAfterStamp(next_row) ==
    (IF op.date_col # 0 THEN <<DateWrite(next_row)>> ELSE <<>>) \o
        <<AddEvent(next_row)>>
\* dest_table.ListRows.Add(), then the optional date stamp in the new row
\* new_row = ListRows(next_row): new_row.Range.Cells(1, col).Value = date_val
AppendRow(next_row) ==
    <<AddEvent(next_row)>> \o
        (IF op.date_col # 0 THEN <<DateWrite(next_row)>> ELSE <<>>)

\* The index of the first row i >= row_start whose first cell matches the
\* keyword, or 0: for i in range(row_start - 1, len(values)) ... break
RECURSIVE FindRow(_, _)
FindRow(values, i) ==
    IF i > Len(values) THEN 0
    ELSE IF Matches(values[i][1], op.keyword) THEN i
    ELSE FindRow(values, i + 1)

CopiedColsWithTotal(num_cols) == num_cols
\* excel_report.py 130: for j in range(1, num_cols), the number of columns
CopiedCols(num_cols) == num_cols - 1

\* excel_report.py 101-134, pattern A.  new_row.Range.Cells(i, c) is the
\* cell i - 1 rows below the appended row.  listRows counts the rows that
\* ListRows.Add() made.
CopyDataBodyRange ==
    /\ patpc = "call"
    /\ op.pattern = "A"
    /\ LET next_row == listRows + 1
           value    == RangeValue(source)
           values   == IF value.isTuple THEN value.rows
                       ELSE <<<<value.scalar>>>>
           num_cols == Len(source[1])
           w        == CopiedCols(num_cols)
           writes   == [k \in 1..(Len(values) * w) |->
                          LET i == ((k - 1) \div w) + 1
                              j == ((k - 1) % w) + 1
                          IN  ValueWrite(next_row + i - 1, col_offset(j),
                                         values[i][j])]
       IN  log' = log \o AppendRow(next_row) \o writes
    /\ listRows' = listRows + 1
    /\ patpc' = "done"
    /\ UNCHANGED <<op, source, header_vals, body_vals, warnings, selected>>
    /\ UNCHANGED <<mainVars, waitVars, bdayVars, auxVars>>

MiddleColFromFirst(k) == k
\* excel_report.py 174: the k-th j of "for j in range(2, num_cols)"
MiddleCol(k) == k + 1

\* excel_report.py 137-177, pattern B
SearchRowCopyColumns ==
    /\ patpc = "call"
    /\ op.pattern = "B"
    /\ LET next_row   == listRows + 1
           values     == RangeValue(source).rows
           num_cols   == Len(source[1])
           target_row == FindRow(values, RowStart(1))
       IN  /\ selected' = target_row
           /\ IF target_row = 0
              THEN /\ log' = log \o AppendRow(next_row)
                   /\ warnings' = Append(warnings, "Keyword not found")
              ELSE /\ log' = log \o AppendRow(next_row) \o
                          [k \in 1..(num_cols - 2) |->
                             ValueWrite(next_row, col_offset(MiddleCol(k)),
                                        values[target_row][MiddleCol(k)])]
                   /\ UNCHANGED warnings
    /\ listRows' = listRows + 1
    /\ patpc' = "done"
    /\ UNCHANGED <<op, source, header_vals, body_vals>>
    /\ UNCHANGED <<mainVars, waitVars, bdayVars, auxVars>>

\* excel_report.py 198-202: the index of the first header that equals
\* op["dest_col_header"], or 0
RECURSIVE FindHeader(_)
FindHeader(i) ==
    IF i > Len(header_vals) THEN 0
    ELSE IF header_vals[i] = Str(op.dest_col_header) THEN i
    ELSE FindHeader(i + 1)

\* excel_report.py 212-215: the index of the first body row whose cell in
\* column dest_col is falsy, or 0
RECURSIVE FindEmpty(_, _)
FindEmpty(dest_col, row_idx) ==
    IF row_idx > Len(body_vals) THEN 0
    ELSE IF ~Truthy(body_vals[row_idx][dest_col]) THEN row_idx
    ELSE FindEmpty(dest_col, row_idx + 1)

\* excel_report.py 180-239, pattern C.  target_row is a sheet row; the
\* cell written is data_body.Cells(target_row - data_body.Row + 1, dest_col).
\* Row is data_body.Row, the sheet row of the first body row.
PreviousFullDayLookup ==
    /\ patpc = "call"
    /\ op.pattern = "C"
    /\ \E Row \in {2, 5} :
         LET dest_col    == FindHeader(1)
             empty       == FindEmpty(dest_col, 1)
             target_row  == IF empty # 0 THEN (empty - 1) + 1 + Row - 1
                            ELSE Len(body_vals) + Row
             values      == RangeValue(source).rows
             num_cols    == Len(values[1])
             target_data == FindRow(values, 1)
             last_val    == values[target_data][num_cols]
         IN  IF dest_col = 0
             THEN /\ warnings' = Append(warnings, "Column not found")
                  /\ UNCHANGED <<log, selected>>
             ELSE IF target_data = 0
             THEN /\ warnings' = Append(warnings, "Keyword not found")
                  /\ UNCHANGED <<log, selected>>
             ELSE IF last_val # PyNone
             THEN /\ log' = Append(log, ValueWrite(target_row - Row + 1,
                                                   dest_col, last_val))
                  /\ selected' = target_data
                  /\ UNCHANGED warnings
             ELSE /\ warnings' = Append(warnings, "No data in last column")
                  /\ selected' = target_data
                  /\ UNCHANGED log
    /\ patpc' = "done"
    /\ UNCHANGED <<op, source, header_vals, body_vals, listRows>>
    /\ UNCHANGED <<mainVars, waitVars, bdayVars, auxVars>>

\* excel_report.py 242-275, pattern D.  An extract_col past the end of the
\* row raises IndexError at line 265, before the row is appended.
SingleCellExtraction ==
    /\ patpc = "call"
    /\ op.pattern = "D"
    /\ LET values     == RangeValue(source).rows
           target_row == FindRow(values, RowStart(2))
           next_row   == listRows + 1
       IN  /\ selected' = target_row
           /\ IF target_row = 0
              THEN /\ warnings' = Append(warnings, "Keyword not found")
                   /\ patpc' = "done"
                   /\ UNCHANGED <<log, listRows>>
              ELSE IF op.extract_col > Len(values[target_row])
              THEN /\ patpc' = "raised"
                   /\ UNCHANGED <<log, listRows, warnings>>
              ELSE /\ log' = log \o <<AddEvent(next_row),
                               ValueWrite(next_row, 1,
                                   values[target_row][op.extract_col])>>
                   /\ listRows' = listRows + 1
                   /\ patpc' = "done"
                   /\ UNCHANGED warnings
    /\ UNCHANGED <<op, source, header_vals, body_vals>>
    /\ UNCHANGED <<mainVars, waitVars, bdayVars, auxVars>>

IsBlankWithoutLast(target_row) ==
    \A j \in 2..(Len(target_row) - 1) : InBlank(target_row[j])
\* excel_report.py 314: all(v in (None, "", 0) for v in target_row[1:])
IsBlank(target_row) ==
    \A j \in 2..Len(target_row) : InBlank(target_row[j])

\* excel_report.py 278-322, pattern E
SearchRowWithBlankCheck ==
    /\ patpc = "call"
    /\ op.pattern = "E"
    /\ LET next_row   == listRows + 1
           values     == RangeValue(source).rows
           num_cols   == Len(values[1])
           target_row == FindRow(values, RowStart(2))
           is_blank   == IsBlank(values[target_row])
       IN  /\ selected' = target_row
           /\ IF target_row = 0
              THEN /\ log' = log \o AppendRow(next_row)
                   /\ warnings' = Append(warnings, "Keyword not found")
              ELSE /\ log' = log \o AppendRow(next_row) \o
                          [k \in 1..(num_cols - 1) |->
                             ValueWrite(next_row, col_offset(k + 1),
                                        IF is_blank THEN Num(0)
                                        ELSE values[target_row][k + 1])]
                   /\ UNCHANGED warnings
    /\ listRows' = listRows + 1
    /\ patpc' = "done"
    /\ UNCHANGED <<op, source, header_vals, body_vals>>
    /\ UNCHANGED <<mainVars, waitVars, bdayVars, auxVars>>

\* excel_report.py 349-356: a tuple of tuples gives its first member, a
\* tuple gives itself, a scalar gives a tuple of one
Flatten(value) ==
    IF value.isTuple /\ value.rows # <<>> THEN value.rows[1]
    ELSE IF value.isTuple THEN value.rows
    ELSE <<value.scalar>>

\* excel_report.py 325-362, pattern F
SheetRangeCopy ==
    /\ patpc = "call"
    /\ op.pattern = "F"
    /\ LET next_row    == listRows + 1
           flat_values == Flatten(RangeValue(source))
       IN  log' = log \o AppendRow(next_row) \o
                  [i \in 1..Len(flat_values) |->
                     ValueWrite(next_row, col_offset(i), flat_values[i])]
    /\ listRows' = listRows + 1
    /\ patpc' = "done"
    /\ UNCHANGED <<op, source, header_vals, body_vals, warnings, selected>>
    /\ UNCHANGED <<mainVars, waitVars, bdayVars, auxVars>>

\* The largest source range and the largest destination table of the calls.
MaxRows == 3
MaxCols == 4
MaxTableRows == 2

\* One call of one handler, at its entry: an operation of the pattern, its
\* source range and its destination table.
\*   - A source row is full of numbers, or holds only None, "" and 0, or
\*     holds them before a number in its last column, or holds numbers
\*     before None in its last column.
\*   - DataGrid is pivot.DataBodyRange (pattern A) or the sheet range of
\*     pattern F; PivotGrid is pivot.TableRange2, whose first column holds
\*     the row labels: labels that contain the first keyword in the rows
\*     of hits, labels and values that do not in the other rows.
\*   - The header labels of the two pattern C operations of the plan
\*     differ in letter case only; cells[r] is the cell of body row r in
\*     the column of that label.
\*   - col_offset is one of the lambdas the plan has for the pattern.
InitPat ==
    LET Kinds == <<"full", "blank", "mixed", "tail">>
        RowKind(i, k) == Kinds[((i + k - 1) % 4) + 1]
        BlankCell(j) == <<PyNone, Str(<<>>), Num(0)>>[(j % 3) + 1]
        DataCell(kind, i, j, C) ==
            CASE kind = "full"  -> Num(10 * i + j)
              [] kind = "blank" -> BlankCell(j)
              [] kind = "mixed" -> IF j = C THEN Num(10 * i + j)
                                   ELSE BlankCell(j)
              [] kind = "tail"  -> IF j = C THEN PyNone
                                   ELSE Num(10 * i + j)
        Keywords == {<<"a", "b">>, <<"5">>}
        Hit(i) == <<Str(<<"a", "b">>), Str(<<"x", "a", "b">>),
                    Str(<<"a", "b", "x">>)>>[(i % 3) + 1]
        Decoy(i, salt) ==
            <<PyNone, Str(<<"a", "x", "b">>), Num(5), Str(<<>>), Num(0),
              Str(<<"b", "a">>)>>[((i + salt) % 6) + 1]
        DataGrid(R, C, k) ==
            [i \in 1..R |->
               [j \in 1..C |-> DataCell(RowKind(i, k), i, j, C)]]
        PivotGrid(R, C, hits, salt, k) ==
            [i \in 1..R |->
               [j \in 1..C |->
                  IF j > 1 THEN DataCell(RowKind(i, k), i, j, C)
                  ELSE IF i \in hits THEN Hit(i) ELSE Decoy(i, salt)]]
        FullDayLabels == {<<"F", "d">>, <<"F", "D">>}
        HeaderRow(W, p, label) ==
            [c \in 1..W |-> IF c = p THEN Str(label)
                            ELSE Str(<<"T", Digits(c)[1]>>)]
        BodyCells == {PyNone, Num(0), Num(7)}
        Body(W, p, cells) ==
            [r \in 1..Len(cells) |->
               [c \in 1..W |-> IF c = p THEN cells[r] ELSE Num(90 + r)]]
        CallA ==
            \E R \in 1..MaxRows, C \in 1..MaxCols, k \in 0..3,
               d \in {0, 2}, delta \in {0, 2} :
                /\ op = [NoOp EXCEPT !.pattern = "A", !.date_col = d,
                                     !.delta = delta]
                /\ source = DataGrid(R, C, k)
                /\ header_vals = <<>>
                /\ body_vals = <<>>
                /\ listRows \in 0..MaxTableRows
        CallB ==
            \E R \in 1..MaxRows, C \in 2..MaxCols, salt \in {0, 3},
               keyword \in Keywords, rs \in 0..MaxRows, d \in {0, 2},
               delta \in {-1, 1} :
              \E hits \in SUBSET (1..R) :
                /\ op = [NoOp EXCEPT !.pattern = "B",
                                     !.keyword = keyword,
                                     !.row_start = rs, !.date_col = d,
                                     !.delta = delta]
                /\ source = PivotGrid(R, C, hits, salt, 0)
                /\ header_vals = <<>>
                /\ body_vals = <<>>
                /\ listRows \in 0..MaxTableRows
        CallC ==
            \E R \in 1..MaxRows, k \in 0..3, p \in 0..3,
               label \in FullDayLabels,
               dest_col_header \in FullDayLabels,
               n \in 1..MaxTableRows :
              \E hits \in SUBSET (1..R), cells \in [1..n -> BodyCells] :
                /\ op = [NoOp EXCEPT !.pattern = "C",
                                     !.keyword = <<"a", "b">>,
                                     !.dest_col_header = dest_col_header]
                /\ source = PivotGrid(R, MaxCols, hits, 0, k)
                /\ header_vals = HeaderRow(3, p, label)
                /\ body_vals = Body(3, p, cells)
                /\ listRows = n
        CallD ==
            \E R \in 1..MaxRows, C \in 2..MaxCols, salt \in {0, 3},
               keyword \in Keywords, rs \in 0..MaxRows :
              \E hits \in SUBSET (1..R), extract_col \in {1, C, C + 1} :
                /\ op = [NoOp EXCEPT !.pattern = "D",
                                     !.keyword = keyword,
                                     !.row_start = rs,
                                     !.extract_col = extract_col]
                /\ source = PivotGrid(R, C, hits, salt, 0)
                /\ header_vals = <<>>
                /\ body_vals = <<>>
                /\ listRows \in 0..MaxTableRows
        CallE ==
            \E R \in 1..MaxRows, C \in 2..MaxCols, k \in 0..3,
               keyword \in Keywords, rs \in 0..MaxRows, d \in {0, 2},
               delta \in {-1, 1} :
              \E hits \in SUBSET (1..R) :
                /\ op = [NoOp EXCEPT !.pattern = "E",
                                     !.keyword = keyword,
                                     !.row_start = rs, !.date_col = d,
                                     !.delta = delta]
                /\ source = PivotGrid(R, C, hits, 0, k)
                /\ header_vals = <<>>
                /\ body_vals = <<>>
                /\ listRows \in 0..MaxTableRows
        CallF ==
            \E R \in 1..MaxRows, C \in 1..MaxCols, k \in 0..3,
               d \in {0, 2} :
                /\ op = [NoOp EXCEPT !.pattern = "F", !.date_col = d,
                                     !.delta = 11]
                /\ source = DataGrid(R, C, k)
                /\ header_vals = <<>>
                /\ body_vals = <<>>
                /\ listRows \in 0..MaxTableRows
    IN  /\ InitMain
        /\ WaitIdle
        /\ BDayIdle
        /\ AuxIdle("none")
        /\ CallA \/ CallB \/ CallC \/ CallD \/ CallE \/ CallF
        /\ log = <<>>
        /\ warnings = <<>>
        /\ selected = 0
        /\ patpc = "call"

\* excel_report.py 365-372: _DISPATCH[op["pattern"]]
NextPat ==
    \/ CopyDataBodyRange
    \/ SearchRowCopyColumns
    \/ PreviousFullDayLookup
    \/ SingleCellExtraction
    \/ SearchRowWithBlankCheck
    \/ SheetRangeCopy

SpecPat == InitPat /\ [][NextPat]_vars

-----------------------------------------------------------------------------
(* Claims about the pattern handlers (specification SpecPat) *)

\* The handler of pattern p has returned.
Returned(p) == patpc = "done" /\ op.pattern = p

\* The writes of source values, in order.
IsValueWrite(e) == e.k = "value"
ValueWrites == SelectSeq(log, IsValueWrite)

\* C21: pattern A on a DataBody of R rows and C columns makes exactly
\* R * (C - 1) value writes: for every row i and every column j < C the
\* value source[i][j] is written at column col_offset(j), and no write
\* goes to the column of the last source column.
C21_PatternAWrites ==
    Returned("A") =>
        LET R == Len(source)
            C == Len(source[1])
        IN  /\ Len(ValueWrites) = R * (C - 1)
            /\ \A i \in 1..R, j \in 1..(C - 1) :
                 \E n \in 1..Len(ValueWrites) :
                    /\ n = (i - 1) * (C - 1) + j
                    /\ ValueWrites[n].col = j + op.delta
                    /\ ValueWrites[n].val = source[i][j]
            /\ \A n \in 1..Len(ValueWrites) :
                 ValueWrites[n].col # C + op.delta

C21_Witness ==
    /\ Returned("A")
    /\ Len(source) = 3
    /\ Len(source[1]) = 4
    /\ Len(ValueWrites) = 9
    /\ ValueWrites[9].val = source[3][3]

\* The calls of ListRows.Add() and the writes of cells, in order.
IsAdd(e) == e.k = "add"
Adds == SelectSeq(log, IsAdd)
IsWrite(e) == e.k # "add"
Writes == SelectSeq(log, IsWrite)

\* The cells that hold a source value after the call.
Populated == {<<ValueWrites[n].row, ValueWrites[n].col>> :
                 n \in 1..Len(ValueWrites)}

\* C22: after pattern A on a destination table of n rows the table has
\* n + 1 rows and every cell the operation wrote lies in the appended row
\* n + 1; for a DataBody of 3 rows and 4 columns and an empty table that
\* is one row with three populated cells, at the columns col_offset(1),
\* col_offset(2) and col_offset(3).
C22_WritesInAppendedRow ==
    Returned("A") =>
        /\ Len(Adds) = 1
        /\ Adds[1].row = listRows
        /\ \A n \in 1..Len(Writes) : Writes[n].row = listRows
        /\ (Len(source) = 3 /\ Len(source[1]) = 4 /\ listRows = 1) =>
               Populated = {<<1, j + op.delta>> : j \in 1..3}

\* C23: pattern F copies every cell of its rectangular source range, in
\* reading order, into the appended row: the cell at reading position p is
\* written at column col_offset(p), whether the range has one row or more.
C23_RangeCopiedInReadingOrder ==
    Returned("F") =>
        LET R == Len(source)
            C == Len(source[1])
        IN  /\ Len(ValueWrites) = R * C
            /\ \A p \in 1..Len(ValueWrites) :
                 /\ ValueWrites[p].row = listRows
                 /\ ValueWrites[p].col = p + op.delta
                 /\ ValueWrites[p].val =
                       source[((p - 1) \div C) + 1][((p - 1) % C) + 1]

\* A label in lower case.
LowerChar(ch) ==
    CASE ch = "F" -> "f"
      [] ch = "D" -> "d"
      [] ch = "T" -> "t"
      [] OTHER    -> ch
Lower(label) == [i \in 1..Len(label) |-> LowerChar(label[i])]

\* The columns whose header is the label of the operation, letter case
\* disregarded.
LabelColumns ==
    {c \in 1..Len(header_vals) :
        header_vals[c].t = "str"
        /\ Lower(header_vals[c].s) = Lower(op.dest_col_header)}

\* C24: pattern C finds the destination column by its header label at any
\* position of the header row and in any letter case; if the label is
\* absent the operation writes no cell, leaves the row count unchanged and
\* returns without an exception.
C24_HeaderLookup ==
    (patpc # "call" /\ op.pattern = "C") =>
        /\ patpc = "done"
        /\ listRows = Len(body_vals)
        /\ LabelColumns = {} => log = <<>>
        /\ LabelColumns # {} =>
              /\ \A n \in 1..Len(warnings) :
                    warnings[n] # "Column not found"
              /\ \A n \in 1..Len(Writes) : Writes[n].col \in LabelColumns

\* The column whose header is exactly the label of the operation, and the
\* source rows whose first cell contains the keyword.
ExactColumns ==
    {c \in 1..Len(header_vals) : header_vals[c] = Str(op.dest_col_header)}
KeywordRows ==
    {i \in 1..Len(source) :
        /\ source[i][1].t # "none"
        /\ Contains(op.keyword, PyStr(source[i][1]))}
Lowest(S) == CHOOSE i \in S : \A j \in S : i <= j

\* A cell without a value.
EmptyCell(v) == v = PyNone \/ v = Str(<<>>)

\* C25: pattern C, when the header and the keyword row are found, writes
\* the last-column value of the matched source row into exactly one cell:
\* the cell of the located column in the first body row that is empty in
\* that column or, if there is none, in the row past the last body row;
\* it writes no other cell.
C25_FirstEmptyCellFilled ==
    (Returned("C") /\ ExactColumns # {} /\ KeywordRows # {}) =>
        LET dest_col == Lowest(ExactColumns)
            matched  == source[Lowest(KeywordRows)]
            empties  == {r \in 1..Len(body_vals) :
                            EmptyCell(body_vals[r][dest_col])}
            target   == IF empties # {} THEN Lowest(empties)
                        ELSE Len(body_vals) + 1
        IN  /\ Len(log) = 1
            /\ log[1].k = "value"
            /\ log[1].row = target
            /\ log[1].col = dest_col
            /\ log[1].val = matched[Len(matched)]

\* The first row a search handler scans, and the scanned rows whose first
\* cell contains the keyword.
FirstScanned ==
    IF op.row_start # 0 THEN op.row_start
    ELSE IF op.pattern \in {"D", "E"} THEN 2 ELSE 1
ScannedHits == {i \in KeywordRows : i >= FirstScanned}

\* A search handler has ended without finding a keyword row.
NotFound(p) == patpc # "call" /\ op.pattern = p /\ ScannedHits = {}

\* The handler warned once, returned, and wrote no source value.
WarnedAndReturned ==
    /\ patpc = "done"
    /\ warnings = <<"Keyword not found">>
    /\ ValueWrites = <<>>

\* C26 as stated: when no scanned row's first cell contains the keyword,
\* patterns B, D and E log a warning, return without raising and write no
\* source value; B and D have appended one row before the search and E
\* leaves the row count unchanged.
C26_NotFoundRowsBD ==
    /\ NotFound("B") => WarnedAndReturned /\ Len(Adds) = 1
    /\ NotFound("D") => WarnedAndReturned /\ Len(Adds) = 1
    /\ NotFound("E") => WarnedAndReturned /\ Len(Adds) = 0

\* C26, amended: when no scanned row's first cell contains the keyword,
\* patterns B, D and E log a warning, return without raising and write no
\* source value; B and E have appended one row before the search and D
\* leaves the row count unchanged.
C26_NotFoundRowsBE ==
    /\ NotFound("B") => WarnedAndReturned /\ Len(Adds) = 1
    /\ NotFound("E") => WarnedAndReturned /\ Len(Adds) = 1
    /\ NotFound("D") => WarnedAndReturned /\ Len(Adds) = 0

C26_Witness ==
    /\ NotFound("E")
    /\ Len(source) = 3
    /\ FirstScanned = 2
    /\ 1 \in KeywordRows
    /\ Len(Adds) = 1
    /\ listRows = 3
    /\ warnings # <<>>

\* The handler has searched the source for the keyword row.
Searched ==
    /\ patpc # "call"
    /\ op.pattern \in {"B", "D", "E"}
         \/ (op.pattern = "C" /\ ExactColumns # {})

\* C27: in patterns B, C, D and E the selected source row is the lowest
\* row at or after row_start (default 1 for B, 2 for D and E, the top for
\* C) whose first cell contains the keyword: never a later one when an
\* earlier one exists, never a row before row_start.
C27_FirstOccurrenceFromRowStart ==
    Searched =>
        selected = IF ScannedHits = {} THEN 0 ELSE Lowest(ScannedHits)

C27_Witness ==
    /\ Searched
    /\ op.pattern = "B"
    /\ op.row_start = 2
    /\ KeywordRows = {1, 2, 3}
    /\ selected = 2

\* A value that is empty or zero.
EmptyOrZero(v) == EmptyCell(v) \/ v = Num(0)

\* C28: pattern E, for the matched row of a range of N columns, writes the
\* columns 2..N, the trailing one included, into the appended row at
\* col_offset(j): 0 everywhere if every value of these columns is empty or
\* zero, the source value unchanged otherwise.
C28_BlankRowZeroFilled ==
    (Returned("E") /\ ScannedHits # {}) =>
        LET matched  == source[Lowest(ScannedHits)]
            N        == Len(matched)
            allBlank == \A j \in 2..N : EmptyOrZero(matched[j])
        IN  /\ Len(ValueWrites) = N - 1
            /\ \A j \in 2..N :
                 /\ ValueWrites[j - 1].row = listRows
                 /\ ValueWrites[j - 1].col = j + op.delta
                 /\ ValueWrites[j - 1].val =
                       IF allBlank THEN Num(0) ELSE matched[j]

C28_Witness ==
    /\ Returned("E")
    /\ selected = 2
    /\ Len(source[2]) = 4
    /\ source[2][2] = Num(0)
    /\ source[2][3] = PyNone
    /\ source[2][4] = Str(<<>>)
    /\ Len(ValueWrites) = 3
    /\ \A n \in 1..3 : ValueWrites[n].val = Num(0)

\* C29: pattern B, for the matched row of a range of N columns, writes
\* exactly the values of the columns 2..N-1 into the appended row, column
\* j at col_offset(j); the first column and the trailing column N are
\* never written.
C29_MiddleColumnsCopied ==
    (Returned("B") /\ ScannedHits # {}) =>
        LET matched == source[Lowest(ScannedHits)]
            N       == Len(matched)
        IN  /\ {ValueWrites[n].col : n \in 1..Len(ValueWrites)} =
                   {j + op.delta : j \in 2..(N - 1)}
            /\ Len(ValueWrites) = Cardinality(2..(N - 1))
            /\ \A n \in 1..Len(ValueWrites) :
                 /\ ValueWrites[n].row = listRows
                 /\ ValueWrites[n].val =
                       matched[ValueWrites[n].col - op.delta]

C29_Witness ==
    /\ Returned("B")
    /\ selected = 1
    /\ Len(source[1]) = 4
    /\ op.delta = -1
    /\ Len(ValueWrites) = 2
    /\ ValueWrites[1] = ValueWrite(listRows, 1, source[1][2])
    /\ ValueWrites[2] = ValueWrite(listRows, 2, source[1][3])

\* C30: every call of a handler of pattern A, B, D, E or F that fills the
\* destination appends exactly one row, and appends it before it writes
\* any destination cell; no call of any handler appends more than one row.
C30_OneRowAppendedFirst ==
    patpc # "call" =>
        /\ Len(Adds) <= 1
        /\ (op.pattern \in {"A", "B", "D", "E", "F"} /\ Writes # <<>>) =>
              /\ Len(Adds) = 1
              /\ log[1].k = "add"
              /\ Adds[1].row = listRows

C30_Witness ==
    /\ Returned("F")
    /\ op.date_col = 2
    /\ listRows = 3
    /\ Len(log) = 6
    /\ log[1] = AddEvent(3)
    /\ log[2] = DateWrite(3)
    /\ \A n \in 3..6 : log[n].k = "value" /\ log[n].row = 3

\* The events a step adds to log
NewEvents == SubSeq(log', Len(log) + 1, Len(log'))

\* C31: no call of a handler decreases the row count of its destination
\* table, a row is only ever added after the last row, and a call of a
\* handler of pattern A, B, D, E or F writes no cell of a row the table
\* had before the call.
C31_PriorRowsStable ==
    [][/\ listRows' >= listRows
       /\ \A n \in 1..Len(NewEvents) :
            /\ NewEvents[n].k = "add" => NewEvents[n].row = listRows + 1
            /\ (op.pattern \in {"A", "B", "D", "E", "F"}
                  /\ NewEvents[n].k # "add") =>
                  NewEvents[n].row > listRows]_vars

C31_Witness ==
    /\ Returned("E")
    /\ op.date_col # 0
    /\ listRows = MaxTableRows + 1
    /\ Len(Writes) >= 3
    /\ \A n \in 1..Len(Writes) : Writes[n].row = listRows

-----------------------------------------------------------------------------
(* excel_report.py: _find_engine_file (specification SpecFind) *)

\* A file of the working directory is a record: marked says that its name
\* contains "AO MO SO CHECKER", ext is its extension, stem tells names of
\* the same kind apart, mtime is os.path.getmtime.

ENGINE_PATTERNS_XLSX_FIRST == <<"xlsx", "xlsm">>
\* excel_report.py 24: '*AO MO SO CHECKER*.xlsm', '*AO MO SO CHECKER*.xlsx'
ENGINE_PATTERNS == <<"xlsm", "xlsx">>

\* excel_report.py 29-38: for the first pattern from the i-th on that
\* glob.glob matches, the files max(matches, key=os.path.getmtime) can
\* return (the first of the newest in the order of glob); {} when no
\* pattern matches.
RECURSIVE EngineMatches(_, _)
EngineMatches(files, i) ==
    IF i > Len(ENGINE_PATTERNS) THEN {}
    ELSE LET matches == {f \in files :
                            f.marked /\ f.ext = ENGINE_PATTERNS[i]}
         IN  IF matches # {}
             THEN {f \in matches : \A g \in matches : g.mtime <= f.mtime}
             ELSE EngineMatches(files, i + 1)

\* excel_report.py 27-41: _find_engine_file returns a file or raises
\* FileNotFoundError.
FindEngineFile ==
    /\ findpc = "call"
    /\ LET newest == EngineMatches(cwdFiles, 1)
       IN  IF newest = {}
           THEN findpc' = "raised" /\ UNCHANGED engine_path
           ELSE findpc' = "ret" /\ engine_path' \in newest
    /\ UNCHANGED <<cwdFiles, config, cfgFile, cfgpc, cfgLeft, cfgLoads,
                   cfgRet, today, engineDoc, backupDir, backupLog>>
    /\ UNCHANGED <<mainVars, waitVars, bdayVars, patVars>>

\* The most files of a directory, and the latest modification time.
MaxFiles == 3
MaxMtime == 3

\* One call of _find_engine_file in a directory of at most MaxFiles files:
\* workbooks and other files, with and without the marker in their names.
InitFind ==
    LET Names == [stem : 1..2, marked : BOOLEAN,
                  ext : {"xlsm", "xlsx", "txt"}]
    IN  /\ InitMain
        /\ WaitIdle
        /\ BDayIdle
        /\ PatIdle
        /\ AuxIdle("find")
        /\ \E names \in SUBSET Names :
              /\ Cardinality(names) <= MaxFiles
              /\ \E m \in [names -> 1..MaxMtime] :
                    cwdFiles = {[stem |-> n.stem, marked |-> n.marked,
                                 ext |-> n.ext, mtime |-> m[n]] :
                                n \in names}
        /\ findpc = "call"

SpecFind == InitFind /\ [][FindEngineFile]_vars

\* The files of the working directory that match the pattern of ext
Matching(ext) == {f \in cwdFiles : f.marked /\ f.ext = ext}

\* C32: _find_engine_file returns a file that matches the .xlsm pattern
\* whenever one exists, also when a file that matches the .xlsx pattern is
\* newer; no file of the pattern of the returned file is newer than it;
\* and it raises the not-found error exactly when no file matches either
\* pattern.
C32_PreferredNewestOrNotFound ==
    /\ findpc = "ret" =>
          /\ engine_path \in Matching("xlsm") \cup Matching("xlsx")
          /\ Matching("xlsm") # {} => engine_path.ext = "xlsm"
          /\ \A g \in Matching(engine_path.ext) :
                g.mtime <= engine_path.mtime
    /\ findpc \in {"ret", "raised"} =>
          (findpc = "raised" <=>
              Matching("xlsm") \cup Matching("xlsx") = {})

C32_Witness ==
    /\ findpc = "ret"
    /\ engine_path.ext = "xlsm"
    /\ engine_path.mtime = 2
    /\ \E g \in Matching("xlsm") : g.mtime = 1
    /\ \E g \in Matching("xlsx") : g.mtime = 3

-----------------------------------------------------------------------------
(* config.py: _load_config (specification SpecCfg) *)

\* The two producers of the parallel phase request the configuration:
\* web_download.py 98-99 (get_web_config) and helpers.py 179-180
\* (get_sap_config).  A thread can be switched between any two steps.

\* config.py 37-39: the call and the test of the module variable; a thread
\* that finds a mapping returns it.
CfgTest(t) ==
    /\ cfgpc[t] = "idle"
    /\ cfgLeft[t] > 0
    /\ cfgLeft' = [cfgLeft EXCEPT ![t] = @ - 1]
    /\ IF config # 0
       THEN /\ cfgRet' = [cfgRet EXCEPT ![t] = @ \cup {config}]
            /\ UNCHANGED cfgpc
       ELSE /\ cfgpc' = [cfgpc EXCEPT ![t] = "load"]
            /\ UNCHANGED cfgRet
    /\ UNCHANGED <<config, cfgFile, cfgLoads>>
    /\ UNCHANGED <<cwdFiles, engine_path, findpc, today, engineDoc,
                   backupDir, backupLog>>
    /\ UNCHANGED <<mainVars, waitVars, bdayVars, patVars>>

\* config.py 41-63: the file that exists is opened and json.load makes a
\* new mapping, which is assigned and returned; json.load raises, or no
\* file exists and FileNotFoundError is raised.
CfgLoad(t) ==
    /\ cfgpc[t] = "load"
    /\ cfgpc' = [cfgpc EXCEPT ![t] = "idle"]
    /\ \E parsed \in BOOLEAN :
          IF cfgFile # "none" /\ parsed
          THEN /\ cfgLoads' = cfgLoads + 1
               /\ config' = cfgLoads + 1
               /\ cfgRet' = [cfgRet EXCEPT ![t] = @ \cup {cfgLoads + 1}]
          ELSE UNCHANGED <<cfgLoads, config, cfgRet>>
    /\ UNCHANGED <<cfgFile, cfgLeft>>
    /\ UNCHANGED <<cwdFiles, engine_path, findpc, today, engineDoc,
                   backupDir, backupLog>>
    /\ UNCHANGED <<mainVars, waitVars, bdayVars, patVars>>

\* The most requests of one thread.
MaxRequests == 3

\* The process before the first request; each producer has requests to make.
InitCfg ==
    /\ InitMain
    /\ WaitIdle
    /\ BDayIdle
    /\ PatIdle
    /\ AuxIdle("config")
    /\ config = 0
    /\ cfgFile \in {"config.json", "config.example.json", "none"}
    /\ cfgpc = [t \in Sides |-> "idle"]
    /\ cfgLeft \in [Sides -> 1..MaxRequests]
    /\ cfgLoads = 0
    /\ cfgRet = [t \in Sides |-> {}]

SpecCfg == InitCfg /\ [][\E t \in Sides : CfgTest(t) \/ CfgLoad(t)]_vars

\* C33: the configuration file is loaded at most once in the process, and
\* every request returns the same mapping, also when the two producers
\* request the configuration concurrently.
C33_ConfigLoadedOnce ==
    /\ cfgLoads <= 1
    /\ \A t \in Sides : cfgRet[t] \subseteq {1}

-----------------------------------------------------------------------------
(* Claims C34..C39: the pipeline's exits and the producers' shared state *)

\* C34 as stated: a run of the pipeline that fails has not persisted the
\* document.
C34_FailedRunNotPersisted == failedPhase # "none" => ~saved

\* C34: workbook.Save() is called only after every operation of the plan
\* was dispatched and the final refresh and its wait have completed; a run
\* that fails in a phase before Save has not persisted the document; and
\* a failing run that opened the workbook closes it (SaveChanges=False)
\* before main raises.  A run that fails in the Save phase after
\* workbook.Save() returned has persisted the document.
C34_FailedBeforeSaveNotPersisted ==
    /\ saved =>
          /\ Len(dispatched) = Len(Plan)
          /\ refreshes = RefreshCycles + 1
          /\ waits = RefreshCycles + 1
          /\ Entered("Save")
    /\ failedPhase \notin {"none", "Save"} => ~saved
    /\ (rpc = "raised" /\ workbookObj) => closeCalls = 1

C34_Witness ==
    /\ rpc = "raised"
    /\ failedPhase = "FinalRefresh"
    /\ Len(dispatched) = Len(Plan)
    /\ opFailed
    /\ workbookObj
    /\ closeCalls = 1
    /\ ~saved

\* C35: when main has ended after Excel was started, whether it returned
\* or raised, excel.Quit() has been called exactly once and
\* workbook.Close exactly once if the workbook was opened and not at all
\* otherwise, also when workbook.Close raised; and main returns exactly
\* when no phase failed, whatever the two calls of the finally block did.
C35_CleanupOnEveryExit ==
    /\ (rpc \in {"ret", "raised"} /\ excelObj) =>
          /\ Entered("Closed")
          /\ quitCalls = 1
          /\ closeCalls = (IF workbookObj THEN 1 ELSE 0)
    /\ rpc \notin {"ret", "raised"} => (quitCalls = 0 /\ closeCalls = 0)
    /\ rpc = "ret" => failedPhase = "none"
    /\ rpc = "raised" => failedPhase # "none"

C35_Witness ==
    /\ rpc = "ret"
    /\ saved
    /\ cleanupRaised = {"Close", "Quit"}
    /\ closeCalls = 1
    /\ quitCalls = 1

\* C36: an operation whose handler raised has left no row and no cell in a
\* destination table of the document that is saved.
C36_SkippedOperationLeavesNothing == saved => ~partialRows

\* C37: a conversion that failed (convert_xls_to_xlsx returned False after
\* an error of Excel or a timeout of the lock) ends the DailyReport
\* sub-job with an exception, so that web_download.main raises.
C37_ConversionFailureFails ==
    [][(/\ dailypc \in {"acquire", "converting"}
        /\ dailypc' \notin {"acquire", "converting"}
        /\ converted' = converted) => dailypc' = "raised"]_vars

\* C38: the file that the MatShortage sub-job downloaded is in the working
\* directory when both sub-jobs of web_download.main have ended.
C38_DownloadSurvivesRemoval ==
    (matpc = "returned" /\ dailypc \in Terminated) => matDownloaded

\* A step in which the entry of side s of results or errors gets a value
\* (the reset of the two records at the start of a run is no such step)
EntryWritten(s) ==
    \/ results'[s] # results[s] /\ results'[s] # None
    \/ errors'[s] # errors[s] /\ errors'[s] # NoError

\* The outcome of the producer of side s
ProducerOk(s) == IF s = "website" THEN WebOk ELSE SapOk

\* C39: in the parallel phase a step that writes the entry of one side of
\* results or errors is the last step of the thread of that side, finds
\* the result entry unset and leaves the entries of the other side alone;
\* a thread that has terminated has set its result entry to the outcome
\* of its producer, and a thread that runs has not; after the join both
\* result entries are set, and the event of task "both" is the one that
\* the outcomes of the two producers determine.
C39_DisjointSingleWrites ==
    /\ [][\A s \in Sides : EntryWritten(s) =>
             /\ thr[s] = "running"
             /\ thr'[s] = "dead"
             /\ results[s] = None
             /\ results'[s] = Obj(IF ProducerOk(s) THEN 0 ELSE 1)
             /\ \A o \in Sides \ {s} :
                   results'[o] = results[o] /\ errors'[o] = errors[o]]_vars
    /\ [](\A s \in Sides :
             /\ thr[s] = "running" => results[s] = None
             /\ thr[s] = "dead" =>
                   results[s] = Obj(IF ProducerOk(s) THEN 0 ELSE 1))
    /\ []((script_type \in {"both", "all"}
              /\ wpc \in {"aggregate", "call_report", "done"}) =>
             \A s \in Sides : thr[s] = "dead" /\ results[s] # None)
    /\ []((script_type = "both" /\ wpc = "done") =>
             finished = <<BothEvent(WebOk, SapOk)>>)

C39_Witness ==
    /\ script_type = "both"
    /\ wpc = "done"
    /\ results = [s \in Sides |-> IF s = "sap" THEN Obj(0) ELSE Obj(1)]
    /\ errors = [s \in Sides |-> IF s = "sap" THEN NoError
                                 ELSE "web_download"]
    /\ finished = <<BothEvent(FALSE, TRUE)>>

-----------------------------------------------------------------------------
(* excel_report.py: _backup_engine_file over several runs (SpecBackup) *)

\* helpers.py 106-135, the value subtract_one_business_day returns for the
\* day d; excel_report.py 53-54: it is the date stamp of the backup.
archive_date(d) ==
    LET hol == get_company_holidays(YearOf(d - 1))
                 \cup get_company_holidays(YearOf(d - 1) - 1)
        RECURSIVE Back(_)
        Back(n) == IF n \in hol THEN Back(n - 1)
                   ELSE IF WeekendStep(Weekday(n)) > 0
                   THEN Back(n - WeekendStep(Weekday(n)))
                   ELSE n
    IN  Back(d - 1)

\* The most runs of the pipeline, and the most days that pass.
MaxRuns == 3
MaxDays == 3

\* excel_report.py 590-657: one run of main.  shutil.copy (line 60) writes
\* the workbook as it is on disk to Backup/<name>_<date stamp><ext>,
\* replacing a file of that name; the run then saves the workbook with the
\* rows it appended, or it fails before workbook.Save().
PipelineRun ==
    /\ Len(backupLog) < MaxRuns
    /\ LET stamp == archive_date(today)
       IN  /\ backupDir' = [backupDir EXCEPT ![stamp] = engineDoc]
           /\ backupLog' = Append(backupLog,
                                  [stamp |-> stamp, doc |-> engineDoc])
    /\ \E save_returns \in BOOLEAN :
          engineDoc' = IF save_returns THEN engineDoc + 1 ELSE engineDoc
    /\ UNCHANGED today
    /\ UNCHANGED <<cwdFiles, engine_path, findpc, config, cfgFile, cfgpc,
                   cfgLeft, cfgLoads, cfgRet>>
    /\ UNCHANGED <<mainVars, waitVars, bdayVars, patVars>>

\* A day passes between two runs.
DayPasses ==
    /\ today < Datetime(FirstYear, 1, 7) + MaxDays
    /\ today' = today + 1
    /\ UNCHANGED <<engineDoc, backupDir, backupLog>>
    /\ UNCHANGED <<cwdFiles, engine_path, findpc, config, cfgFile, cfgpc,
                   cfgLeft, cfgLoads, cfgRet>>
    /\ UNCHANGED <<mainVars, waitVars, bdayVars, patVars>>

\* Before the first run, which is on one of the first seven days of
\* FirstYear: the workbook in its first version, an empty Backup folder.
InitBackup ==
    /\ InitMain
    /\ WaitIdle
    /\ BDayIdle
    /\ PatIdle
    /\ AuxIdle("backup")
    /\ today \in Datetime(FirstYear, 1, 1)..Datetime(FirstYear, 1, 7)
    /\ engineDoc = 1
    /\ backupDir = [n \in (Datetime(FirstYear, 1, 1) - 10)..
                          (Datetime(FirstYear, 1, 7) + MaxDays) |-> 0]
    /\ backupLog = <<>>

SpecBackup == InitBackup /\ [][PipelineRun \/ DayPasses]_vars

\* C40: the backup file that a run has written holds, after every later
\* run, the workbook as it was before that run.
C40_BackupNeverOverwritten ==
    \A i \in 1..Len(backupLog) :
        backupDir[backupLog[i].stamp] = backupLog[i].doc

====
